---- MODULE Spec2Model ----
(***************************************************************************)
(* A model of src/app.py (InfraLens): the two workbook parsers and their   *)
(* dispatcher, the lazily loaded compatibility table, the compatibility    *)
(* lookup, the licensing calculator and the diagram layout.                *)
(*                                                                         *)
(* Text is modelled as a sequence of one-character strings, so that        *)
(* lower-casing, stripping, substring tests and sorting are computed       *)
(* rather than assumed.                                                    *)
(***************************************************************************)
EXTENDS Integers, Sequences, FiniteSets, TLC

VARIABLES
    \* parse_file and the two parsers
    workbook, site_name, parse_out,
    \* load_hcl called from request threads
    hcl_cache, hcl_file, hcl_opens, hcl_next_obj, th_pc, th_local, th_ret, th_calls,
    \* check_vcf9_compat
    cm_model, cm_hcl, cm_out,
    \* calculate_licensing
    lic_sites, lic_type, lic_report,
    \* generate_excalidraw
    gx_sites, gx_vcf9, gx_docs,
    \* find_col
    fc_columns, fc_candidates, fc_out,
    \* the /generate route: request.files and request.form, the handler's
    \* position and locals, its response, and app.config
    rq_files, rq_vcf9, rq_license, rq_pc, rq_i, rq_sites, rq_enabled, rq_caught,
    rq_json, rq_response, rq_log, rq_later, app_config,
    \* the CSV formatters
    csv_sites, csv_kind, csv_out

parseVars  == <<workbook, site_name, parse_out>>
hclVars    == <<hcl_cache, hcl_file, hcl_opens, hcl_next_obj, th_pc, th_local, th_ret, th_calls>>
compatVars == <<cm_model, cm_hcl, cm_out>>
licVars    == <<lic_sites, lic_type, lic_report>>
layoutVars == <<gx_sites, gx_vcf9, gx_docs>>
colVars    == <<fc_columns, fc_candidates, fc_out>>
reqVars    == <<rq_files, rq_vcf9, rq_license, rq_pc, rq_i, rq_sites, rq_enabled, rq_caught,
               rq_json, rq_response, rq_log, rq_later, app_config>>
csvVars    == <<csv_sites, csv_kind, csv_out>>
vars == <<parseVars, hclVars, compatVars, licVars, layoutVars, colVars, reqVars, csvVars>>

\* Python's None, and the NaN pandas gives an empty cell.
None == <<"None">>
NaN  == <<"NaN">>

(***************************************************************************)
(* Text helpers (str.lower, str.strip, the `in` operator on str, sorted).  *)
(***************************************************************************)
UpperChars == <<"A","B","C","D","E","F","G","H","I","J","K","L","M",
                "N","O","P","Q","R","S","T","U","V","W","X","Y","Z">>
LowerChars == <<"a","b","c","d","e","f","g","h","i","j","k","l","m",
                "n","o","p","q","r","s","t","u","v","w","x","y","z">>

\* Code-point order of the characters the model uses (ASCII order).
CharOrder == <<" ", "#", "+", ".", "0", "1", "2", "3", "4", "5", "6", "7", "8", "9">>
             \o UpperChars \o LowerChars

IndexOf(seq, c) ==
    IF \E i \in DOMAIN seq : seq[i] = c
    THEN CHOOSE i \in DOMAIN seq : seq[i] = c /\ \A j \in 1..(i-1) : seq[j] # c
    ELSE 0

LowerTable ==
    [c \in {UpperChars[i] : i \in DOMAIN UpperChars} |-> LowerChars[IndexOf(UpperChars, c)]]

LowerChar(c) == IF c \in DOMAIN LowerTable THEN LowerTable[c] ELSE c

\* str.lower()
Lower(s) == [i \in DOMAIN s |-> LowerChar(s[i])]

IsSpace(c) == c = " "

\* str.strip(): whitespace removed at both ends.
Strip(s) ==
    LET keep == {i \in DOMAIN s : ~IsSpace(s[i])} IN
    IF keep = {} THEN <<>>
    ELSE LET lo == CHOOSE i \in keep : \A j \in keep : i <= j
             hi == CHOOSE i \in keep : \A j \in keep : j <= i
         IN  SubSeq(s, lo, hi)

\* whether `a` occurs at position i of `b`
OccursAt(a, b, i) ==
    /\ i >= 1
    /\ i + Len(a) - 1 <= Len(b)
    /\ \A k \in 1..Len(a) : b[i + k - 1] = a[k]

\* Python `a in b` on two str values
IsSubstr(a, b) == \E i \in 1..(Len(b) + 1) : OccursAt(a, b, i)

\* Python's < on str: lexicographic by code point.
RECURSIVE StrLess(_, _)
StrLess(a, b) ==
    IF b = <<>> THEN FALSE
    ELSE IF a = <<>> THEN TRUE
    ELSE IF a[1] # b[1] THEN IndexOf(CharOrder, a[1]) < IndexOf(CharOrder, b[1])
    ELSE StrLess(Tail(a), Tail(b))

\* list insertion keeping ascending order; equal items stay in arrival order
RECURSIVE InsertSorted(_, _)
InsertSorted(x, sorted) ==
    IF sorted = <<>> THEN <<x>>
    ELSE IF StrLess(x, sorted[1]) THEN <<x>> \o sorted
    ELSE <<sorted[1]>> \o InsertSorted(x, Tail(sorted))

\* sorted(list of str)
RECURSIVE Sorted(_)
Sorted(xs) ==
    IF xs = <<>> THEN <<>>
    ELSE InsertSorted(xs[Len(xs)], Sorted(SubSeq(xs, 1, Len(xs) - 1)))

\* sep.join(list of str)
RECURSIVE Join(_, _)
Join(sep, xs) ==
    IF xs = <<>> THEN <<>>
    ELSE IF Len(xs) = 1 THEN xs[1]
    ELSE xs[1] \o sep \o Join(sep, Tail(xs))

\* all sequences over S of length 0..n
SeqsUpTo(S, n) == UNION {[1..k -> S] : k \in 0..n}

RECURSIVE SumSeq(_)
SumSeq(xs) == IF xs = <<>> THEN 0 ELSE xs[1] + SumSeq(Tail(xs))

(***************************************************************************)
(* Numbers in text: str.isdigit, int(str), str(int), re.search of          *)
(* (\d+\.\d+\.\d+), float(str), int(float) and the format spec .0f.        *)
(* float(str) is modelled on the texts [sign] digits [. digits], inf,      *)
(* infinity and nan (any letter case); every other text is a ValueError.   *)
(***************************************************************************)
DigitChars == <<"0", "1", "2", "3", "4", "5", "6", "7", "8", "9">>
DigitTable == [c \in {DigitChars[i] : i \in DOMAIN DigitChars} |-> IndexOf(DigitChars, c) - 1]
IsDigit(c) == c \in DOMAIN DigitTable

\* str.isdigit()
isdigit(s) == s # <<>> /\ \A i \in DOMAIN s : IsDigit(s[i])

\* the length of the run of digits that starts at position i
RECURSIVE DigitRun(_, _)
DigitRun(s, i) == IF i <= Len(s) /\ IsDigit(s[i]) THEN 1 + DigitRun(s, i + 1) ELSE 0

\* int(s) for a text of digits
RECURSIVE StrToNat(_)
StrToNat(s) ==
    IF s = <<>> THEN 0
    ELSE StrToNat(SubSeq(s, 1, Len(s) - 1)) * 10 + DigitTable[s[Len(s)]]

\* str(n)
RECURSIVE NatToStr(_)
NatToStr(n) ==
    IF n < 10 THEN <<DigitChars[n + 1]>>
    ELSE NatToStr(n \div 10) \o <<DigitChars[(n % 10) + 1]>>
IntToStr(n) == IF n < 0 THEN <<"-">> \o NatToStr(0 - n) ELSE NatToStr(n)

\* the length of the match of \d+\.\d+\.\d+ at position i, 0 when none
VersionMatchLen(s, i) ==
    LET third(a, b, c) ==
            IF /\ a > 0 /\ i + a <= Len(s) /\ s[i + a] = "."
               /\ b > 0 /\ i + a + b + 1 <= Len(s) /\ s[i + a + b + 1] = "."
               /\ c > 0
            THEN a + b + c + 2 ELSE 0
        second(a, b) == third(a, b, DigitRun(s, i + a + b + 2))
        first(a)     == second(a, DigitRun(s, i + a + 1))
    IN  first(DigitRun(s, i))

\* m = re.search(r'(\d+\.\d+\.\d+)', s): <<m.group(1)>>, or <<>> for no match
VersionSearch(s) ==
    LET group(i)  == SubSeq(s, i, i + VersionMatchLen(s, i) - 1)
        found(at) == IF at = {} THEN <<>>
                     ELSE <<group(CHOOSE k \in at : \A j \in at : k <= j)>>
    IN  found({i \in DOMAIN s : VersionMatchLen(s, i) > 0})

\* float(text): kind is "finite", "inf", "nan" or "ValueError"; a finite
\* value is kept as its sign, its whole part and its fraction digits.
\* body is the text after the sign, w the length of its leading digits,
\* dot whether a "." follows them, f the length of the digits after it.
PyFloat(text) ==
    LET number(neg, body, w, dot, f) ==
            IF Lower(body) \in {<<"i","n","f">>, <<"i","n","f","i","n","i","t","y">>}
            THEN [kind |-> "inf", neg |-> neg, whole |-> 0, frac |-> <<>>]
            ELSE IF Lower(body) = <<"n","a","n">>
            THEN [kind |-> "nan", neg |-> FALSE, whole |-> 0, frac |-> <<>>]
            ELSE IF w + f >= 1 /\ w + (IF dot THEN 1 + f ELSE 0) = Len(body)
            THEN [kind |-> "finite", neg |-> neg,
                  whole |-> StrToNat(SubSeq(body, 1, w)),
                  frac |-> SubSeq(body, w + 2, w + 1 + f)]
            ELSE [kind |-> "ValueError", neg |-> FALSE, whole |-> 0, frac |-> <<>>]
        fraction(neg, body, w, dot) ==
            number(neg, body, w, dot, IF dot THEN DigitRun(body, w + 2) ELSE 0)
        whole(neg, body, w) ==
            fraction(neg, body, w, w < Len(body) /\ body[w + 1] = ".")
        unsigned(neg, body) == whole(neg, body, DigitRun(body, 1))
        signed(s) ==
            unsigned(s # <<>> /\ s[1] = "-",
                     IF s # <<>> /\ s[1] \in {"+", "-"} THEN Tail(s) ELSE s)
    IN  signed(Strip(text))

\* int(x) for a float x: truncation toward zero; int(inf) raises
\* OverflowError and int(nan) raises ValueError
PyInt(x) ==
    CASE x.kind = "finite" -> [exc |-> "", value |-> IF x.neg THEN 0 - x.whole ELSE x.whole]
      [] x.kind = "inf"    -> [exc |-> "OverflowError", value |-> 0]
      [] OTHER             -> [exc |-> "ValueError", value |-> 0]

\* how the fraction digits compare with one half: -1 below, 0 equal, 1 above
FracVsHalf(frac) ==
    IF frac = <<>> THEN -1
    ELSE IF DigitTable[frac[1]] > 5 THEN 1
    ELSE IF DigitTable[frac[1]] < 5 THEN -1
    ELSE IF \E i \in 2..Len(frac) : frac[i] # "0" THEN 1 ELSE 0

\* f"{x:.0f}" for a float x: round half to even, the sign kept
FormatF0(x) ==
    CASE x.kind = "inf" -> (IF x.neg THEN <<"-">> ELSE <<>>) \o <<"i","n","f">>
      [] x.kind = "nan" -> <<"n","a","n">>
      [] OTHER ->
           LET rounded(half) ==
                   IF half = 1 \/ (half = 0 /\ x.whole % 2 = 1)
                   THEN x.whole + 1 ELSE x.whole
           IN  (IF x.neg THEN <<"-">> ELSE <<>>) \o NatToStr(rounded(FracVsHalf(x.frac)))

(***************************************************************************)
(* Column resolver and the two parsers.                                    *)
(***************************************************************************)

\* cols_lower = {c.lower(): c for c in df.columns}: a later header with the
\* same lower-cased name replaces an earlier one.
ColsLower(columns, key) ==
    LET hits == {i \in DOMAIN columns : Lower(columns[i]) = key} IN
    IF hits = {} THEN None
    ELSE columns[CHOOSE i \in hits : \A j \in hits : j <= i]

\* a plausible slip: the headers walked first, so header order decides
find_col_HeaderOrder(columns, candidates) ==
    LET hits == {i \in DOMAIN columns :
                    \E k \in DOMAIN candidates : Lower(columns[i]) = Lower(candidates[k])}
    IN  IF hits = {} THEN None
        ELSE columns[CHOOSE i \in hits : \A j \in hits : i <= j]

RECURSIVE find_col(_, _)
find_col(columns, candidates) ==
    IF candidates = <<>> THEN None
    ELSE IF ColsLower(columns, Lower(candidates[1])) # None
         THEN ColsLower(columns, Lower(candidates[1]))
    ELSE find_col(columns, Tail(candidates))

\* safe(val): "" for NaN/None, else str(val).strip()
safe(val) == IF val = NaN \/ val = None THEN <<>> ELSE Strip(val)

\* row[col] for a column that exists; row.get(col, "") in general
RowGet(row, col) == IF col \in DOMAIN row THEN row[col] ELSE <<>>

\* fmt_pct(v) for a text v
fmt_pct(v) ==
    LET fmt(x) == IF x.kind # "ValueError" THEN FormatF0(x) \o <<"%">>
                  ELSE IF v # <<>> THEN Strip(v) ELSE <<"[dash]">>
    IN  fmt(PyFloat(v))

\* try: v = int(float(text))  except (ValueError, TypeError): pass
\* exc names the exception that leaves the try statement, "" for none
CoerceCount(text) ==
    LET int_(x)   == IF x.kind = "ValueError" THEN [exc |-> "ValueError", value |-> 0]
                     ELSE PyInt(x)
        except(r) == IF r.exc \in {"ValueError", "TypeError"}
                     THEN [exc |-> "", value |-> 0] ELSE r
    IN  except(int_(PyFloat(text)))

Str_vhost        == <<"v","h","o","s","t">>
Str_esx_hosts    == <<"e","s","x"," ","h","o","s","t","s">>
Str_Default      == <<"D","e","f","a","u","l","t">>
Str_VM_Host      == <<"V","M"," ","H","o","s","t">>
Str_Host         == <<"H","o","s","t">>
Str_DNS_Name     == <<"D","N","S"," ","N","a","m","e">>
Str_Name         == <<"N","a","m","e">>
Str_Cluster      == <<"C","l","u","s","t","e","r">>
Str_Cluster_Name == <<"C","l","u","s","t","e","r"," ","N","a","m","e">>
Str_Host_Name    == <<"H","o","s","t"," ","N","a","m","e">>

HostCandidates    == <<Str_VM_Host, Str_Host, Str_DNS_Name, Str_Name>>
ClusterCandidates == <<Str_Cluster, Str_Cluster_Name>>

Str_Model            == <<"M","o","d","e","l">>
Str_Sockets          == <<"S","o","c","k","e","t","s">>
Str_Cores_Per_Socket == <<"C","o","r","e","s"," ","P","e","r"," ","S","o","c","k","e","t">>
Str_OS               == <<"O","S">>
Str_Guest_VM_Count   == <<"G","u","e","s","t"," ","V","M"," ","C","o","u","n","t">>
Str_Serial_No        == <<"S","e","r","i","a","l"," ","N","o">>
Str_vCenter          == <<"v","C","e","n","t","e","r">>

ModelCandidates    == <<<<"M","o","d","e","l">>, <<"H","a","r","d","w","a","r","e"," ","M","o","d","e","l">>>>
EsxiCandidates     == 
    <<<<"E","S","X"," ","V","e","r","s","i","o","n">>, <<"E","S","X","i"," ","V","e","r","s","i","o","n">>, <<"V","e","r","s","i","o","n">>>>
VmsCandidates      == 
    <<<<"#"," ","V","M","s">>, <<"V","M","s">>, <<"N","u","m","b","e","r"," ","o","f"," ","V","M","s">>, <<"#","V","M","s">>>>
CpuCandidates      == 
    <<<<"C","P","U"," ","u","s","a","g","e"," ","%">>, <<"C","P","U"," ","%">>, <<"C","P","U"," ","U","s","a","g","e"," ","%">>, <<"C","P","U","%">>>>
MemCandidates      == 
    <<<<"M","e","m","o","r","y"," ","u","s","a","g","e"," ","%">>, <<"M","e","m"," ","%">>, <<"M","e","m","o","r","y"," ","%">>, <<"M","e","m","%">>>>
SvcCandidates      == 
    <<<<"S","e","r","v","i","c","e"," ","T","a","g">>, <<"S","e","r","i","a","l"," ","N","u","m","b","e","r">>, <<"S","N">>>>
SocketsCandidates  == 
    <<<<"#"," ","C","P","U">>, <<"C","P","U","s">>, <<"C","P","U"," ","S","o","c","k","e","t","s">>, <<"S","o","c","k","e","t","s">>, <<"N","u","m"," ","C","P","U">>>>
CoresCpuCandidates == 
    <<<<"C","o","r","e","s"," ","p","e","r"," ","C","P","U">>, <<"#"," ","C","o","r","e","s"," ","p","e","r"," ","C","P","U">>, <<"C","o","r","e","s"," ","P","e","r"," ","S","o","c","k","e","t">>>>
LoSocketsCandidates  == 
    <<<<"C","P","U"," ","S","o","c","k","e","t","s">>, <<"S","o","c","k","e","t","s">>>>
LoCoresCpuCandidates == 
    <<<<"C","o","r","e","s"," ","P","e","r"," ","S","o","c","k","e","t">>, <<"C","o","r","e","s"," ","p","e","r"," ","C","P","U">>>>

\* a plausible slip: a cluster seen for the first time put ahead of the others
SetDefaultAppend_NewFirst(clusters, h) ==
    IF \E k \in DOMAIN clusters : clusters[k].name = h.cluster
    THEN [k \in DOMAIN clusters |->
            IF clusters[k].name = h.cluster
            THEN [clusters[k] EXCEPT !.hosts = Append(@, h)]
            ELSE clusters[k]]
    ELSE <<[name |-> h.cluster, hosts |-> <<h>>]>> \o clusters

\* a plausible slip: clusters[c] = [h] instead of setdefault(c, []).append(h)
SetDefaultAppend_Overwrite(clusters, h) ==
    IF \E k \in DOMAIN clusters : clusters[k].name = h.cluster
    THEN [k \in DOMAIN clusters |->
            IF clusters[k].name = h.cluster
            THEN [clusters[k] EXCEPT !.hosts = <<h>>]
            ELSE clusters[k]]
    ELSE Append(clusters, [name |-> h.cluster, hosts |-> <<h>>])

\* clusters.setdefault(c, []).append(h) over a list of hosts: an ordered
\* dict, modelled as a sequence of [name, hosts] in first-insertion order.
SetDefaultAppend(clusters, h) ==
    IF \E k \in DOMAIN clusters : clusters[k].name = h.cluster
    THEN [k \in DOMAIN clusters |->
            IF clusters[k].name = h.cluster
            THEN [clusters[k] EXCEPT !.hosts = Append(@, h)]
            ELSE clusters[k]]
    ELSE Append(clusters, [name |-> h.cluster, hosts |-> <<h>>])

RECURSIVE GroupByCluster(_)
GroupByCluster(hosts) ==
    IF hosts = <<>> THEN <<>>
    ELSE SetDefaultAppend(GroupByCluster(SubSeq(hosts, 1, Len(hosts) - 1)),
                          hosts[Len(hosts)])

\* What one vHost row does to the hosts list: hosts is <<>> for a blank
\* hostname, else the one host appended; exc names an exception raised
\* while the row is read, "" for none.  cols holds the find_col results.
RvHost(row, cols) ==
    LET cell(c)  == IF c # None THEN safe(row[c]) ELSE <<>>
        count(c) == IF c # None THEN CoerceCount(safe(row[c])) ELSE [exc |-> "", value |-> 0]
        group1(esxi, m) == IF m # <<>> THEN m[1] ELSE esxi
        esxi_short(esxi) == group1(esxi, VersionSearch(esxi))
        host(hostname, cluster, vms, sockets, cores) ==
            IF hostname = <<>> THEN [exc |-> "", hosts |-> <<>>]
            ELSE IF sockets.exc # "" THEN [exc |-> sockets.exc, hosts |-> <<>>]
            ELSE IF cores.exc # "" THEN [exc |-> cores.exc, hosts |-> <<>>]
            ELSE [exc |-> "",
                  hosts |-> <<[hostname |-> hostname,
                               cluster  |-> IF cluster # <<>> THEN cluster ELSE Str_Default,
                               model    |-> cell(cols.model),
                               esxi     |-> esxi_short(cell(cols.esxi)),
                               vms      |-> IF vms # <<>> THEN vms ELSE <<"0">>,
                               cpu      |-> fmt_pct(cell(cols.cpu)),
                               mem      |-> fmt_pct(cell(cols.mem)),
                               svc      |-> cell(cols.svc),
                               sockets          |-> sockets.value,
                               cores_per_socket |-> cores.value]>>]
    IN  host(cell(cols.host),
             IF cols.cluster # None THEN safe(row[cols.cluster]) ELSE Str_Default,
             cell(cols.vms), count(cols.sockets), count(cols.cores_cpu))

\* What one "ESX Hosts" row does to the hosts list.  The workbooks of the
\* model have no "ESX Performance" sheet, so perf is {} and both
\* percentages are fmt_pct("").
LoHost(row, cols) ==
    LET count(c) == IF c # None THEN CoerceCount(safe(row[c])) ELSE [exc |-> "", value |-> 0]
        group1(m) == IF m # <<>> THEN m[1] ELSE <<>>
        host(hostname, cluster, vms, sockets, cores) ==
            IF hostname = <<>> THEN [exc |-> "", hosts |-> <<>>]
            ELSE IF sockets.exc # "" THEN [exc |-> sockets.exc, hosts |-> <<>>]
            ELSE IF cores.exc # "" THEN [exc |-> cores.exc, hosts |-> <<>>]
            ELSE [exc |-> "",
                  hosts |-> <<[hostname |-> hostname,
                               cluster  |-> IF cluster # <<>> THEN cluster ELSE Str_Default,
                               model    |-> safe(RowGet(row, Str_Model)),
                               esxi     |-> group1(VersionSearch(safe(RowGet(row, Str_OS)))),
                               vms      |-> IF vms # <<>> THEN vms ELSE <<"0">>,
                               cpu      |-> fmt_pct(<<>>),
                               mem      |-> fmt_pct(<<>>),
                               svc      |-> safe(RowGet(row, Str_Serial_No)),
                               sockets          |-> sockets.value,
                               cores_per_socket |-> cores.value]>>]
    IN  host(safe(RowGet(row, Str_Host_Name)), safe(RowGet(row, Str_Cluster)),
             safe(RowGet(row, Str_Guest_VM_Count)),
             count(cols.sockets), count(cols.cores_cpu))

\* the row loop of a parser: the hosts list it builds, or the exception
\* that ends it at the first row raising one
RECURSIVE RvHosts(_, _)
RvHosts(rows, cols) ==
    LET next(before, r) == IF before.exc # "" THEN before
                           ELSE [exc |-> r.exc, hosts |-> before.hosts \o r.hosts]
    IN  IF rows = <<>> THEN [exc |-> "", hosts |-> <<>>]
        ELSE next(RvHosts(SubSeq(rows, 1, Len(rows) - 1), cols),
                  RvHost(rows[Len(rows)], cols))

RECURSIVE LoHosts(_, _)
LoHosts(rows, cols) ==
    LET next(before, r) == IF before.exc # "" THEN before
                           ELSE [exc |-> r.exc, hosts |-> before.hosts \o r.hosts]
    IN  IF rows = <<>> THEN [exc |-> "", hosts |-> <<>>]
        ELSE next(LoHosts(SubSeq(rows, 1, Len(rows) - 1), cols),
                  LoHost(rows[Len(rows)], cols))

\* sum(int(h["vms"]) if h["vms"].isdigit() else 0 for h in hosts)
TotalVms(hosts) ==
    SumSeq([i \in DOMAIN hosts |->
               IF isdigit(hosts[i].vms) THEN StrToNat(hosts[i].vms) ELSE 0])

SheetsLower(xls) == {Lower(xls.sheet_names[i]) : i \in DOMAIN xls.sheet_names}

ValueError(text) == [status |-> "ValueError", message |-> text]

\* an exception other than ValueError leaving a parser
ParserRaised(exc) == [status |-> exc, message |-> <<>>]

\* what a parser returns after its row loop
SiteOf(loop, parser, label, vcenter_version) ==
    IF loop.exc # "" THEN ParserRaised(loop.exc)
    ELSE [status          |-> "ok",
          parser          |-> parser,
          site_name       |-> label,
          clusters        |-> GroupByCluster(loop.hosts),
          vcenter_version |-> vcenter_version,
          total_hosts     |-> Len(loop.hosts),
          total_vms       |-> TotalVms(loop.hosts)]

\* The workbooks of the model have no "vSource" sheet, so vcenter_version
\* stays "".
parse_rvtools(xls, label) ==
    IF Str_vhost \notin SheetsLower(xls)
    THEN ValueError(<<"No vHost sheet found in ", label>>)
    ELSE SiteOf(RvHosts(xls.rows,
                        [host      |-> find_col(xls.columns, HostCandidates),
                         cluster   |-> find_col(xls.columns, ClusterCandidates),
                         model     |-> find_col(xls.columns, ModelCandidates),
                         esxi      |-> find_col(xls.columns, EsxiCandidates),
                         vms       |-> find_col(xls.columns, VmsCandidates),
                         cpu       |-> find_col(xls.columns, CpuCandidates),
                         mem       |-> find_col(xls.columns, MemCandidates),
                         svc       |-> find_col(xls.columns, SvcCandidates),
                         sockets   |-> find_col(xls.columns, SocketsCandidates),
                         cores_cpu |-> find_col(xls.columns, CoresCpuCandidates)]),
                "parse_rvtools", label, <<>>)

parse_liveoptics(xls, label) ==
    LET group1(m) == IF m # <<>> THEN m[1] ELSE <<>>
        vc_str    == IF xls.rows # <<>> THEN safe(RowGet(xls.rows[1], Str_vCenter)) ELSE <<>>
    IN  IF Str_esx_hosts \notin SheetsLower(xls)
        THEN ValueError(<<"No 'ESX Hosts' sheet found in ", label>>)
        ELSE SiteOf(LoHosts(xls.rows,
                            [sockets   |-> find_col(xls.columns, LoSocketsCandidates),
                             cores_cpu |-> find_col(xls.columns, LoCoresCpuCandidates)]),
                    "parse_liveoptics", label, group1(VersionSearch(vc_str)))

\* a plausible slip: the two sheet tests in the other order
parse_file_LiveOpticsFirst(xls, label) ==
    IF Str_esx_hosts \in SheetsLower(xls) THEN parse_liveoptics(xls, label)
    ELSE IF Str_vhost \in SheetsLower(xls) THEN parse_rvtools(xls, label)
    ELSE ValueError(<<"\"", label, "\" is not a recognised RVTools or LiveOptics export">>)

parse_file(xls, label) ==
    IF Str_vhost \in SheetsLower(xls) THEN parse_rvtools(xls, label)
    ELSE IF Str_esx_hosts \in SheetsLower(xls) THEN parse_liveoptics(xls, label)
    ELSE ValueError(<<"\"", label, "\" is not a recognised RVTools or LiveOptics export">>)

(***************************************************************************)
(* Workbooks handed to parse_file.  A workbook is its ordered sheet names  *)
(* and the table (headers, rows) of its host sheet; an empty cell is NaN.  *)
(***************************************************************************)
MaxSheets == 2
MaxRows   == 2

Str_vHost_sheet     == <<"v","H","o","s","t">>
Str_ESX_Hosts_sheet == <<"E","S","X"," ","H","o","s","t","s">>
Str_Summary_sheet   == <<"S","u","m","m","a","r","y">>
SheetNames == {Str_vHost_sheet, Str_ESX_Hosts_sheet, Str_Summary_sheet}

HostHeaders    == {Str_Host_Name, <<"N","A","M","E">>}
ClusterHeaders == {Str_Cluster}
HostCells      == {NaN, <<" ">>, <<" ","h","1">>, <<"h","2">>}
ClusterCells   == {NaN, <<"A">>, <<" ","B">>}
SiteLabels     == {"siteA", "siteB"}

HeaderLists ==
    {<<>>} \cup {<<h>> : h \in HostHeaders} \cup {<<c>> : c \in ClusterHeaders}
    \cup {<<h, c>> : h \in HostHeaders, c \in ClusterHeaders}

RowsOf(columns) ==
    LET names == {columns[i] : i \in DOMAIN columns} IN
    {r \in [names -> HostCells \cup ClusterCells] :
        \A c \in names : r[c] \in (IF c \in HostHeaders THEN HostCells ELSE ClusterCells)}

SheetLists ==
    {s \in SeqsUpTo(SheetNames, MaxSheets) : \A i, j \in DOMAIN s : i # j => s[i] # s[j]}

IdleParse  == workbook = <<>> /\ site_name = "" /\ parse_out = <<>>
IdleHcl    == /\ hcl_cache = 0 /\ hcl_file = "" /\ hcl_opens = 0 /\ hcl_next_obj = 0
              /\ th_pc = <<>> /\ th_local = <<>> /\ th_ret = <<>> /\ th_calls = <<>>
IdleCompat == cm_model = <<>> /\ cm_hcl = <<>> /\ cm_out = <<>>
IdleLic    == lic_sites = <<>> /\ lic_type = "" /\ lic_report = <<>>
IdleLayout == gx_sites = <<>> /\ gx_vcf9 = FALSE /\ gx_docs = <<>>
IdleCol    == fc_columns = <<>> /\ fc_candidates = <<>> /\ fc_out = <<>>
IdleReq    == /\ rq_files = <<>> /\ rq_vcf9 = FALSE /\ rq_license = FALSE /\ rq_pc = ""
              /\ rq_i = 0 /\ rq_sites = <<>> /\ rq_enabled = FALSE /\ rq_caught = ""
              /\ rq_json = <<>> /\ rq_response = <<>> /\ rq_log = <<>>
              /\ rq_later = FALSE /\ app_config = <<>>
IdleCsv    == csv_sites = <<>> /\ csv_kind = "" /\ csv_out = <<>>

\* what a specification of one component leaves at rest, and unchanged
ParseOnly  == IdleHcl /\ IdleCompat /\ IdleLic /\ IdleLayout /\ IdleCol /\ IdleReq
              /\ IdleCsv
HclOnly    == IdleParse /\ IdleCompat /\ IdleLic /\ IdleLayout /\ IdleCol /\ IdleReq
              /\ IdleCsv
CompatOnly == IdleParse /\ IdleHcl /\ IdleLic /\ IdleLayout /\ IdleCol /\ IdleReq
              /\ IdleCsv
LicOnly    == IdleParse /\ IdleHcl /\ IdleCompat /\ IdleLayout /\ IdleCol /\ IdleReq
              /\ IdleCsv
LayoutOnly == IdleParse /\ IdleHcl /\ IdleCompat /\ IdleLic /\ IdleCol /\ IdleReq
              /\ IdleCsv
ColOnly    == IdleParse /\ IdleHcl /\ IdleCompat /\ IdleLic /\ IdleLayout /\ IdleReq
              /\ IdleCsv
ReqOnly    == IdleParse /\ IdleCompat /\ IdleLic /\ IdleLayout /\ IdleCol /\ IdleCsv
              /\ hcl_opens = 0 /\ hcl_next_obj = 0
              /\ th_pc = <<>> /\ th_local = <<>> /\ th_ret = <<>> /\ th_calls = <<>>
CsvOnly    == IdleParse /\ IdleHcl /\ IdleCompat /\ IdleLic /\ IdleLayout /\ IdleCol
              /\ IdleReq

ParseFrame  == UNCHANGED <<hclVars, compatVars, licVars, layoutVars, colVars, reqVars,
                           csvVars>>
CompatFrame == UNCHANGED <<parseVars, hclVars, licVars, layoutVars, colVars, reqVars,
                           csvVars>>
LicFrame    == UNCHANGED <<parseVars, hclVars, compatVars, layoutVars, colVars, reqVars,
                           csvVars>>
LayoutFrame == UNCHANGED <<parseVars, hclVars, compatVars, licVars, colVars, reqVars,
                           csvVars>>
CsvFrame    == UNCHANGED <<parseVars, hclVars, compatVars, licVars, layoutVars, colVars,
                           reqVars>>
ReqFrame    == UNCHANGED <<parseVars, compatVars, licVars, layoutVars, colVars, csvVars,
                           hcl_opens, hcl_next_obj, th_pc, th_local, th_ret, th_calls>>
ColFrame    == UNCHANGED <<parseVars, hclVars, compatVars, licVars, layoutVars, reqVars,
                           csvVars>>

InitParse ==
    /\ \E sn \in SheetLists, cols \in HeaderLists :
          \E rs \in SeqsUpTo(RowsOf(cols), MaxRows) :
              workbook = [sheet_names |-> sn, columns |-> cols, rows |-> rs]
    /\ site_name \in SiteLabels
    /\ parse_out = <<>>
    /\ ParseOnly

\* parse_file(file_bytes, site_name) on the uploaded workbook
ParseFile ==
    /\ parse_out = <<>>
    /\ parse_out' = <<parse_file(workbook, site_name)>>
    /\ UNCHANGED <<workbook, site_name>>
    /\ ParseFrame

NextParse == ParseFile
SpecParse == InitParse /\ [][NextParse]_vars

Parsed    == parse_out # <<>>
ParseRes  == parse_out[1]

\* the hostname each parser reads from a row of the workbook
RowHostnameRv(row) ==
    IF find_col(workbook.columns, HostCandidates) # None
    THEN safe(row[find_col(workbook.columns, HostCandidates)]) ELSE <<>>
RowHostnameLo(row) == safe(RowGet(row, Str_Host_Name))
NonBlankRows ==
    Cardinality({i \in DOMAIN workbook.rows :
        IF ParseRes.parser = "parse_rvtools"
        THEN RowHostnameRv(workbook.rows[i]) # <<>>
        ELSE RowHostnameLo(workbook.rows[i]) # <<>>})

\* C1: a Site returned for a workbook with N non-blank-hostname rows has
\* total_hosts = N, cluster lists whose lengths sum to N, every listed host
\* under the one key equal to its own cluster field, and no empty list.
C1_SiteHostCounts ==
    (Parsed /\ ParseRes.status = "ok") =>
        LET cs == ParseRes.clusters IN
        /\ ParseRes.total_hosts = NonBlankRows
        /\ SumSeq([k \in DOMAIN cs |-> Len(cs[k].hosts)]) = NonBlankRows
        /\ \A k \in DOMAIN cs :
              /\ cs[k].hosts # <<>>
              /\ \A i \in DOMAIN cs[k].hosts : cs[k].hosts[i].cluster = cs[k].name
        /\ \A k, l \in DOMAIN cs : cs[k].name = cs[l].name => k = l

\* witness: a parsed Site with two clusters, one of them holding two hosts
C1_Witness ==
    /\ Parsed /\ ParseRes.status = "ok"
    /\ Len(ParseRes.clusters) = 2
    /\ ParseRes.total_hosts = 2
    /\ Len(workbook.rows) = 2

VhostPresent == \E i \in DOMAIN workbook.sheet_names :
                    Lower(workbook.sheet_names[i]) = Str_vhost
EsxPresent   == \E i \in DOMAIN workbook.sheet_names :
                    Lower(workbook.sheet_names[i]) = Str_esx_hosts

\* C2: parse_file uses the Format-A parser when a "vhost" sheet is present
\* (also next to an "esx hosts" sheet), else the Format-B parser when an
\* "esx hosts" sheet is present, else fails with an error that names the
\* site label and returns no Site.
C2_Dispatch ==
    Parsed =>
        /\ VhostPresent => (ParseRes.status = "ok" /\ ParseRes.parser = "parse_rvtools")
        /\ (~VhostPresent /\ EsxPresent) =>
              (ParseRes.status = "ok" /\ ParseRes.parser = "parse_liveoptics")
        /\ (~VhostPresent /\ ~EsxPresent) =>
              /\ ParseRes.status = "ValueError"
              /\ \E i \in DOMAIN ParseRes.message : ParseRes.message[i] = site_name
              /\ "clusters" \notin DOMAIN ParseRes

\* witness: both host sheets present and the Format-A parser was used
C2_Witness ==
    /\ Parsed /\ VhostPresent /\ EsxPresent
    /\ ParseRes.parser = "parse_rvtools"

\* witness of the failing branch: no known sheet, an error, no Site
C2_WitnessError ==
    Parsed /\ ~VhostPresent /\ ~EsxPresent /\ ParseRes.status = "ValueError"

(***************************************************************************)
(* load_hcl, called from the request threads of the threaded server.       *)
(* A table object json.load returns is a positive number; 0 is None.       *)
(* A thread may be switched out between any two of the steps below.        *)
(***************************************************************************)
NumThreads == 2
MaxCalls   == 2

Threads  == 1..NumThreads
HclNone  == 0
Raised   == -1

InitHcl ==
    /\ hcl_cache = HclNone
    /\ hcl_file \in {"ok", "missing", "corrupt"}
    /\ hcl_opens = 0
    /\ hcl_next_obj = 0
    /\ th_pc = [t \in Threads |-> "idle"]
    /\ th_local = [t \in Threads |-> HclNone]
    /\ th_ret = [t \in Threads |-> <<>>]
    /\ th_calls = [t \in Threads |-> 0]
    /\ HclOnly

HclFrame == UNCHANGED <<parseVars, compatVars, licVars, layoutVars, colVars, reqVars, csvVars,
                        hcl_file>>

\* a request thread enters load_hcl()
HclCall(t) ==
    /\ th_pc[t] = "idle"
    /\ th_calls[t] < MaxCalls
    /\ th_calls' = [th_calls EXCEPT ![t] = @ + 1]
    /\ th_pc' = [th_pc EXCEPT ![t] = "check"]
    /\ UNCHANGED <<hcl_cache, hcl_opens, hcl_next_obj, th_local, th_ret>>
    /\ HclFrame

\* if _hcl_cache is not None
HclCheck(t) ==
    /\ th_pc[t] = "check"
    /\ th_pc' = [th_pc EXCEPT ![t] = IF hcl_cache # HclNone THEN "hit" ELSE "open"]
    /\ UNCHANGED <<hcl_cache, hcl_opens, hcl_next_obj, th_local, th_ret, th_calls>>
    /\ HclFrame

\* return _hcl_cache  (the cached branch)
HclReturnCached(t) ==
    /\ th_pc[t] = "hit"
    /\ th_ret' = [th_ret EXCEPT ![t] = Append(@, hcl_cache)]
    /\ th_pc' = [th_pc EXCEPT ![t] = "idle"]
    /\ UNCHANGED <<hcl_cache, hcl_opens, hcl_next_obj, th_local, th_calls>>
    /\ HclFrame

\* with open(hcl_path, 'r') as f: raises when the file is missing
HclOpen(t) ==
    /\ th_pc[t] = "open"
    /\ IF hcl_file = "missing"
       THEN /\ th_ret' = [th_ret EXCEPT ![t] = Append(@, Raised)]
            /\ th_pc' = [th_pc EXCEPT ![t] = "idle"]
            /\ UNCHANGED hcl_opens
       ELSE /\ hcl_opens' = hcl_opens + 1
            /\ th_pc' = [th_pc EXCEPT ![t] = "load"]
            /\ UNCHANGED th_ret
    /\ UNCHANGED <<hcl_cache, hcl_next_obj, th_local, th_calls>>
    /\ HclFrame

\* json.load(f): a new table object, or an exception on unparsable text
HclJsonLoad(t) ==
    /\ th_pc[t] = "load"
    /\ IF hcl_file = "corrupt"
       THEN /\ th_ret' = [th_ret EXCEPT ![t] = Append(@, Raised)]
            /\ th_pc' = [th_pc EXCEPT ![t] = "idle"]
            /\ UNCHANGED <<hcl_next_obj, th_local>>
       ELSE /\ hcl_next_obj' = hcl_next_obj + 1
            /\ th_local' = [th_local EXCEPT ![t] = hcl_next_obj + 1]
            /\ th_pc' = [th_pc EXCEPT ![t] = "store"]
            /\ UNCHANGED th_ret
    /\ UNCHANGED <<hcl_cache, hcl_opens, th_calls>>
    /\ HclFrame

\* _hcl_cache = <the loaded table>
HclStore(t) ==
    /\ th_pc[t] = "store"
    /\ hcl_cache' = th_local[t]
    /\ th_pc' = [th_pc EXCEPT ![t] = "ret"]
    /\ UNCHANGED <<hcl_opens, hcl_next_obj, th_local, th_ret, th_calls>>
    /\ HclFrame

\* return _hcl_cache  (after the load)
HclReturnLoaded(t) ==
    /\ th_pc[t] = "ret"
    /\ th_ret' = [th_ret EXCEPT ![t] = Append(@, hcl_cache)]
    /\ th_pc' = [th_pc EXCEPT ![t] = "idle"]
    /\ UNCHANGED <<hcl_cache, hcl_opens, hcl_next_obj, th_local, th_calls>>
    /\ HclFrame

NextHcl ==
    \E t \in Threads :
        \/ HclCall(t)
        \/ HclCheck(t)
        \/ HclReturnCached(t)
        \/ HclOpen(t)
        \/ HclJsonLoad(t)
        \/ HclStore(t)
        \/ HclReturnLoaded(t)

SpecHcl == InitHcl /\ [][NextHcl]_vars

\* C3: under any interleaving of load_hcl calls the reference file is
\* opened and parsed at most once, and all calls return the same table.
C3_LoadedOnce ==
    /\ hcl_opens <= 1
    /\ hcl_next_obj <= 1
    /\ \A t, u \in Threads :
          \A i \in DOMAIN th_ret[t], j \in DOMAIN th_ret[u] :
             (th_ret[t][i] # Raised /\ th_ret[u][j] # Raised)
                => th_ret[t][i] = th_ret[u][j]

\* the cache holds nothing, or a table json.load has returned in full
CacheEmptyOrTable == hcl_cache = HclNone \/ hcl_cache \in 1..hcl_next_obj

\* a call that raised: thread t's newest return is the exception
RaisedNow(t) ==
    /\ th_ret'[t] # th_ret[t]
    /\ th_ret'[t][Len(th_ret'[t])] = Raised

\* C24: the cache is always either empty or a completely parsed table; a
\* load_hcl call that fails raises and leaves the cache empty, so that the
\* next call loads again; and a populated cache is never changed or
\* cleared afterwards.
C24_CacheWriteOnce ==
    /\ []CacheEmptyOrTable
    /\ [][\A t \in Threads : RaisedNow(t) => hcl_cache = HclNone /\ hcl_cache' = HclNone]_vars
    /\ [][hcl_cache # HclNone => hcl_cache' = hcl_cache]_vars

\* what does hold in every state: the cache is empty or a whole table, and
\* while the file cannot be read the cache stays empty, every finished call
\* has raised and no call takes the cached branch
C24_EmptyOrWholeTable ==
    /\ CacheEmptyOrTable
    /\ hcl_file # "ok" =>
          /\ hcl_cache = HclNone
          /\ \A t \in Threads :
                /\ th_pc[t] \notin {"hit", "store", "ret"}
                /\ \A i \in DOMAIN th_ret[t] : th_ret[t][i] = Raised

\* what does hold of every step: a failing call leaves the cache as it
\* was, a populated cache is never cleared, and it is replaced only by the
\* store of a thread that found it empty and loaded a table of its own
C24_ReplacedOnlyByRacingStore ==
    [][/\ \A t \in Threads : RaisedNow(t) => hcl_cache' = hcl_cache
       /\ hcl_cache # HclNone =>
             /\ hcl_cache' # HclNone
             /\ hcl_cache' # hcl_cache =>
                   \E t \in Threads : /\ th_pc[t] = "store" /\ th_pc'[t] = "ret"
                                      /\ hcl_cache' = th_local[t]]_vars

\* witness: two calls have failed on an unparsable file, each after its
\* own open, and the cache is still empty
C24_WitnessRetryAfterFailure ==
    /\ hcl_file = "corrupt"
    /\ hcl_cache = HclNone
    /\ Len(th_ret[1]) = 2
    /\ hcl_opens >= 2

\* witness: a cache that held the first table now holds the second, while
\* a finished call has returned the first
C24_WitnessReplaced ==
    /\ hcl_cache = 2
    /\ \E t \in Threads : \E i \in DOMAIN th_ret[t] : th_ret[t][i] = 1

(***************************************************************************)
(* calculate_licensing.  A site is [site_name, clusters]; clusters is the  *)
(* ordered dict of the parsers, a sequence of [name, hosts].  TiB amounts  *)
(* are held in quarters of a TiB, which both multipliers (1.0 and 0.25)    *)
(* make whole numbers.                                                     *)
(***************************************************************************)
MaxLicHosts == 3

SocketVals == {0, 2}
CoreVals   == {0, 8, 20}

Max(a, b) == IF a >= b THEN a ELSE b

\* tib_per_core = 1.0 if deployment_type == "VCF" else 0.25, in quarters
TibPerCore(deployment_type) == IF deployment_type = "VCF" THEN 4 ELSE 1

\* a plausible slip: the 16-core floor left out
LicHost_NoFloor(acc, site, cluster_name, h, tib_per_core) ==
    IF h.sockets = 0 \/ h.cores_per_socket = 0
    THEN [acc EXCEPT !.missing_count = @ + 1,
                     !.rows = Append(@, [site |-> site.site_name, cluster |-> cluster_name,
                                         hostname |-> h.hostname, sockets |-> h.sockets,
                                         cores_per_socket |-> h.cores_per_socket,
                                         foundation_cores |-> 0, entitled_tib |-> 0,
                                         missing |-> TRUE])]
    ELSE LET foundation_cores == h.sockets * h.cores_per_socket
             entitled_tib     == foundation_cores * tib_per_core
         IN [acc EXCEPT !.total_cores = @ + foundation_cores,
                        !.total_tib = @ + entitled_tib,
                        !.rows = Append(@, [site |-> site.site_name, cluster |-> cluster_name,
                                            hostname |-> h.hostname, sockets |-> h.sockets,
                                            cores_per_socket |-> h.cores_per_socket,
                                            foundation_cores |-> foundation_cores,
                                            entitled_tib |-> entitled_tib,
                                            missing |-> FALSE])]

\* a plausible slip: a host without counts is counted but gets no line
LicHost_NoMissingLine(acc, site, cluster_name, h, tib_per_core) ==
    IF h.sockets = 0 \/ h.cores_per_socket = 0
    THEN [acc EXCEPT !.missing_count = @ + 1]
    ELSE LET foundation_cores == h.sockets * Max(h.cores_per_socket, 16)
             entitled_tib     == foundation_cores * tib_per_core
         IN [acc EXCEPT !.total_cores = @ + foundation_cores,
                        !.total_tib = @ + entitled_tib,
                        !.rows = Append(@, [site |-> site.site_name, cluster |-> cluster_name,
                                            hostname |-> h.hostname, sockets |-> h.sockets,
                                            cores_per_socket |-> h.cores_per_socket,
                                            foundation_cores |-> foundation_cores,
                                            entitled_tib |-> entitled_tib,
                                            missing |-> FALSE])]

\* the body of the innermost loop: one host, the running totals in acc
LicHost(acc, site, cluster_name, h, tib_per_core) ==
    IF h.sockets = 0 \/ h.cores_per_socket = 0
    THEN [acc EXCEPT !.missing_count = @ + 1,
                     !.rows = Append(@, [site |-> site.site_name, cluster |-> cluster_name,
                                         hostname |-> h.hostname, sockets |-> h.sockets,
                                         cores_per_socket |-> h.cores_per_socket,
                                         foundation_cores |-> 0, entitled_tib |-> 0,
                                         missing |-> TRUE])]
    ELSE LET effective_cores  == Max(h.cores_per_socket, 16)
             foundation_cores == h.sockets * effective_cores
             entitled_tib     == foundation_cores * tib_per_core
         IN [acc EXCEPT !.total_cores = @ + foundation_cores,
                        !.total_tib = @ + entitled_tib,
                        !.rows = Append(@, [site |-> site.site_name, cluster |-> cluster_name,
                                            hostname |-> h.hostname, sockets |-> h.sockets,
                                            cores_per_socket |-> h.cores_per_socket,
                                            foundation_cores |-> foundation_cores,
                                            entitled_tib |-> entitled_tib,
                                            missing |-> FALSE])]

\* for h in hosts
RECURSIVE LicHostsLoop(_, _, _, _, _)
LicHostsLoop(acc, site, cluster_name, hosts, tib_per_core) ==
    IF hosts = <<>> THEN acc
    ELSE LicHostsLoop(LicHost(acc, site, cluster_name, hosts[1], tib_per_core),
                      site, cluster_name, Tail(hosts), tib_per_core)

\* for cluster_name, hosts in site["clusters"].items()
RECURSIVE LicClustersLoop(_, _, _, _)
LicClustersLoop(acc, site, clusters, tib_per_core) ==
    IF clusters = <<>> THEN acc
    ELSE LicClustersLoop(
            LicHostsLoop(acc, site, clusters[1].name, clusters[1].hosts, tib_per_core),
            site, Tail(clusters), tib_per_core)

\* for site in sites
RECURSIVE LicSitesLoop(_, _, _)
LicSitesLoop(acc, sites, tib_per_core) ==
    IF sites = <<>> THEN acc
    ELSE LicSitesLoop(LicClustersLoop(acc, sites[1], sites[1].clusters, tib_per_core),
                      Tail(sites), tib_per_core)

calculate_licensing(sites, deployment_type) ==
    LET tib_per_core == TibPerCore(deployment_type)
        acc == LicSitesLoop([rows |-> <<>>, total_cores |-> 0, total_tib |-> 0,
                             missing_count |-> 0], sites, tib_per_core)
    IN  [rows            |-> acc.rows,
         total_cores     |-> acc.total_cores,
         total_tib       |-> acc.total_tib,
         missing_count   |-> acc.missing_count,
         deployment_type |-> deployment_type,
         tib_per_core    |-> tib_per_core]

(***************************************************************************)
(* Site lists as the parsers return them: a sequence of hosts cut into     *)
(* clusters and sites.  cuts[i] says where host i+1 goes: the cluster of   *)
(* host i ("host"), a new cluster of the same site ("cluster"), or the     *)
(* first cluster of a new site ("site").  No cluster is empty.             *)
(***************************************************************************)
CutKinds == {"host", "cluster", "site"}

RECURSIVE GroupSites(_, _)
GroupSites(hosts, cuts) ==
    IF Len(hosts) = 1
    THEN <<[site_name |-> 1, clusters |-> <<[name |-> 1, hosts |-> hosts]>>]>>
    ELSE LET n     == Len(hosts)
             prev  == GroupSites(SubSeq(hosts, 1, n - 1), SubSeq(cuts, 1, n - 2))
             h     == hosts[n]
             ls    == prev[Len(prev)]
             lc    == ls.clusters[Len(ls.clusters)]
         IN  CASE cuts[n - 1] = "host" ->
                    [prev EXCEPT ![Len(prev)].clusters[Len(ls.clusters)].hosts = Append(@, h)]
               [] cuts[n - 1] = "cluster" ->
                    [prev EXCEPT ![Len(prev)].clusters =
                        Append(@, [name |-> Len(ls.clusters) + 1, hosts |-> <<h>>])]
               [] OTHER ->
                    Append(prev, [site_name |-> Len(prev) + 1,
                                  clusters |-> <<[name |-> 1, hosts |-> <<h>>]>>])

\* all hosts of a site list, in site, cluster and host order
RECURSIVE FlatHosts(_)
FlatHosts(sites) ==
    IF sites = <<>> THEN <<>>
    ELSE LET cs == sites[1].clusters
             RECURSIVE OfClusters(_)
             OfClusters(c) == IF c = <<>> THEN <<>> ELSE c[1].hosts \o OfClusters(Tail(c))
         IN  OfClusters(cs) \o FlatHosts(Tail(sites))

LicHostSet(i) ==
    {[hostname |-> i, sockets |-> s, cores_per_socket |-> c] :
        s \in SocketVals, c \in CoreVals}

InitLic ==
    /\ \E n \in 1..MaxLicHosts :
         \E hs \in {f \in [1..n -> UNION {LicHostSet(i) : i \in 1..n}] :
                        \A i \in 1..n : f[i].hostname = i},
            cuts \in [1..(n - 1) -> CutKinds] :
               lic_sites = GroupSites(hs, cuts)
    /\ lic_type \in {"VCF", "VVF"}
    /\ lic_report = <<>>
    /\ LicOnly

\* report = calculate_licensing(sites, deployment_type)
CalculateLicensing ==
    /\ lic_report = <<>>
    /\ lic_report' = <<calculate_licensing(lic_sites, lic_type)>>
    /\ UNCHANGED <<lic_sites, lic_type>>
    /\ LicFrame

NextLic == CalculateLicensing
SpecLic == InitLic /\ [][NextLic]_vars

LicDone   == lic_report # <<>>
LicReport == lic_report[1]
LicInput  == FlatHosts(lic_sites)

\* C4: a host with both counts non-zero gets a line with missing = false,
\* foundation_cores = sockets * max(cores_per_socket, 16) and entitlement =
\* foundation_cores * m (m = 1.0 for VCF, 0.25 for VVF); a host with a zero
\* count gets missing = true, foundation_cores = 0 and entitlement = 0.
\* sockets = 2, cores_per_socket = 8 under VCF gives 32 cores and 32.0 TiB.
C4_LineValues ==
    LicDone =>
        /\ Len(LicReport.rows) = Len(LicInput)
        /\ \A i \in DOMAIN LicReport.rows :
              LET h == LicInput[i]
                  r == LicReport.rows[i]
                  m == IF lic_type = "VCF" THEN 4 ELSE 1
              IN  /\ (h.sockets # 0 /\ h.cores_per_socket # 0) =>
                        /\ r.missing = FALSE
                        /\ r.foundation_cores =
                              h.sockets * (IF h.cores_per_socket > 16
                                           THEN h.cores_per_socket ELSE 16)
                        /\ r.entitled_tib = r.foundation_cores * m
                  /\ (h.sockets = 0 \/ h.cores_per_socket = 0) =>
                        /\ r.missing = TRUE
                        /\ r.foundation_cores = 0
                        /\ r.entitled_tib = 0
                  /\ (h.sockets = 2 /\ h.cores_per_socket = 8 /\ lic_type = "VCF") =>
                        /\ r.foundation_cores = 32
                        /\ r.entitled_tib = 32 * 4

\* witness: the 2 x 8 host under VCF next to a host with a zero count
C4_Witness ==
    /\ LicDone /\ lic_type = "VCF"
    /\ \E i, j \in DOMAIN LicReport.rows :
          /\ LicReport.rows[i].sockets = 2 /\ LicReport.rows[i].cores_per_socket = 8
          /\ LicReport.rows[i].foundation_cores = 32
          /\ LicReport.rows[j].missing

LicCounted == {i \in DOMAIN LicReport.rows : ~LicReport.rows[i].missing}

\* C5: the report has one line per host in site, cluster and host order;
\* total_cores and the total entitlement are the sums over the lines that
\* are not missing (the entitlement being total_cores * multiplier);
\* missing_count counts the missing lines; the report carries the mode.
C5_ReportTotals ==
    LicDone =>
        /\ Len(LicReport.rows) = Len(LicInput)
        /\ \A i \in DOMAIN LicReport.rows :
              LicReport.rows[i].hostname = LicInput[i].hostname
        /\ LicReport.total_cores =
              SumSeq([i \in DOMAIN LicReport.rows |->
                        IF i \in LicCounted THEN LicReport.rows[i].foundation_cores ELSE 0])
        /\ LicReport.total_tib =
              SumSeq([i \in DOMAIN LicReport.rows |->
                        IF i \in LicCounted THEN LicReport.rows[i].entitled_tib ELSE 0])
        /\ LicReport.total_tib =
              LicReport.total_cores * (IF lic_type = "VCF" THEN 4 ELSE 1)
        /\ LicReport.missing_count =
              Cardinality(DOMAIN LicReport.rows \ LicCounted)
        /\ LicReport.deployment_type = lic_type

\* witness: a report over two sites with a missing and a counted line
C5_Witness ==
    /\ LicDone /\ Len(lic_sites) = 2
    /\ LicReport.missing_count = 1
    /\ LicReport.total_cores > 0
    /\ Len(LicReport.rows) = 3

(***************************************************************************)
(* Compatibility lookup: normalize_model, build_vcf9_lookup, _vcf9_label   *)
(* and check_vcf9_compat.  The three emoji of the labels are the atoms     *)
(* "[check]", "[warn]" and "[cross]".                                      *)
(***************************************************************************)
MaxHclEntries == 2

\* how many whitespace characters follow each other from position i of s
RECURSIVE SpanSpaces(_, _)
SpanSpaces(s, i) ==
    IF i <= Len(s) /\ IsSpace(s[i]) THEN 1 + SpanSpaces(s, i + 1) ELSE 0

\* whether s continues, from position i, with word (case-insensitively)
WordAt(s, i, word) == OccursAt(Lower(word), Lower(s), i)

\* Length of the match of  <word>\s+  at the start of s, 0 for no match.
WordSpaces(s, word) ==
    IF WordAt(s, 1, word) /\ SpanSpaces(s, Len(word) + 1) > 0
    THEN Len(word) + SpanSpaces(s, Len(word) + 1)
    ELSE 0

\* Length of the match of  Dell\s+(Inc\.?\s*)?  at the start of s.
DellPrefix(s) ==
    LET d == WordSpaces(s, <<"D","e","l","l">>) IN
    IF d = 0 THEN 0
    ELSE IF WordAt(s, d + 1, <<"I","n","c">>)
         THEN LET dot == IF d + 4 <= Len(s) /\ s[d + 4] = "." THEN 1 ELSE 0
              IN  d + 3 + dot + SpanSpaces(s, d + 4 + dot)
         ELSE d

\* Length of the match of  HPE?\s+  at the start of s.
HpPrefix(s) ==
    IF WordSpaces(s, <<"H","P","E">>) > 0 THEN WordSpaces(s, <<"H","P","E">>)
    ELSE WordSpaces(s, <<"H","P">>)

\* Length of the match of _VENDOR_PREFIX_RE at the start of s, 0 for none:
\* the alternatives are tried in the order they are written.
VendorPrefixLen(s) ==
    IF DellPrefix(s) > 0 THEN DellPrefix(s)
    ELSE IF HpPrefix(s) > 0 THEN HpPrefix(s)
    ELSE IF WordSpaces(s, <<"L","e","n","o","v","o">>) > 0
         THEN WordSpaces(s, <<"L","e","n","o","v","o">>)
    ELSE IF WordSpaces(s, <<"C","i","s","c","o">>) > 0
         THEN WordSpaces(s, <<"C","i","s","c","o">>)
    ELSE WordSpaces(s, <<"F","u","j","i","t","s","u">>)

\* _VENDOR_PREFIX_RE.sub('', model).strip()
normalize_model(model) == Strip(SubSeq(model, VendorPrefixLen(model) + 1, Len(model)))

\* s.replace(old, ''): every occurrence of old, left to right, removed
RECURSIVE RemoveAll(_, _)
RemoveAll(s, old) ==
    IF s = <<>> THEN <<>>
    ELSE IF OccursAt(old, s, 1) THEN RemoveAll(SubSeq(s, Len(old) + 1, Len(s)), old)
    ELSE <<s[1]>> \o RemoveAll(Tail(s), old)

Str_ESXi_ == <<"E","S","X","i"," ">>

VersionsOf(releases) == [i \in DOMAIN releases |-> RemoveAll(releases[i], Str_ESXi_)]

ReadyLabel(versions) ==
    <<"[check]"," ","V","C","F"," ">> \o Join(<<" ","+"," ">>, versions)
        \o <<" ","R","e","a","d","y">>

\* a plausible slip: the versions joined in table order, not sorted
vcf9_label_Unsorted(releases) == ReadyLabel(VersionsOf(releases))

\* _vcf9_label(releases)
vcf9_label(releases) == ReadyLabel(Sorted(VersionsOf(releases)))

UnknownLabel  == <<"[warn]"," ","V","C","F","9"," ","?">>
NotReadyLabel == <<"[cross]"," ","N","o","t"," ","V","C","F","9"," ","R","e","a","d","y">>

\* lookup[key] = releases on an ordered dict: a key already present keeps
\* its place and takes the new value
DictSet(lookup, key, releases) ==
    IF \E k \in DOMAIN lookup : lookup[k].key = key
    THEN [k \in DOMAIN lookup |->
            IF lookup[k].key = key THEN [key |-> key, releases |-> releases]
            ELSE lookup[k]]
    ELSE Append(lookup, [key |-> key, releases |-> releases])

\* {entry['m'].strip().lower(): entry['r'] for entry in hcl_data}
RECURSIVE build_vcf9_lookup(_)
build_vcf9_lookup(hcl_data) ==
    IF hcl_data = <<>> THEN <<>>
    ELSE LET entry == hcl_data[Len(hcl_data)] IN
         DictSet(build_vcf9_lookup(SubSeq(hcl_data, 1, Len(hcl_data) - 1)),
                 Lower(Strip(entry.m)), entry.r)

LookupKeys(lookup) == {lookup[k].key : k \in DOMAIN lookup}
LookupGet(lookup, key) == lookup[CHOOSE k \in DOMAIN lookup : lookup[k].key = key].releases

\* a plausible slip: only `norm in hcl_model` is tested
RECURSIVE FirstSubstringMatch_OneWay(_, _)
FirstSubstringMatch_OneWay(norm, lookup) ==
    IF lookup = <<>>
    THEN [status |-> "incompatible", label |-> NotReadyLabel]
    ELSE IF IsSubstr(norm, lookup[1].key)
         THEN [status |-> "compatible", label |-> vcf9_label(lookup[1].releases)]
    ELSE FirstSubstringMatch_OneWay(norm, Tail(lookup))

\* the loop over lookup.items(): the first key that contains norm or is
\* contained in it
RECURSIVE FirstSubstringMatch(_, _)
FirstSubstringMatch(norm, lookup) ==
    IF lookup = <<>>
    THEN [status |-> "incompatible", label |-> NotReadyLabel]
    ELSE IF IsSubstr(norm, lookup[1].key) \/ IsSubstr(lookup[1].key, norm)
         THEN [status |-> "compatible", label |-> vcf9_label(lookup[1].releases)]
    ELSE FirstSubstringMatch(norm, Tail(lookup))

\* a plausible slip: only None is taken for a missing model
check_vcf9_compat_NoneOnly(model, lookup) ==
    IF model = None
    THEN [status |-> "unknown", label |-> UnknownLabel]
    ELSE LET norm == Lower(normalize_model(model)) IN
         IF norm \in LookupKeys(lookup)
         THEN [status |-> "compatible", label |-> vcf9_label(LookupGet(lookup, norm))]
         ELSE FirstSubstringMatch(norm, lookup)

check_vcf9_compat(model, lookup) ==
    IF model = None \/ model = <<>>
    THEN [status |-> "unknown", label |-> UnknownLabel]
    ELSE LET norm == Lower(normalize_model(model)) IN
         IF norm \in LookupKeys(lookup)
         THEN [status |-> "compatible", label |-> vcf9_label(LookupGet(lookup, norm))]
         ELSE FirstSubstringMatch(norm, lookup)

\* Model strings of hosts, and the records of the reference file.
ModelStrings ==
    { None, <<>>, <<" ">>,
      <<"r","6">>, <<"R","6","4">>, <<"x","9">>,
      <<"H","P"," ","r","6">>,
      <<"h","p","e"," "," ","R","6","4"," ">>,
      <<"H","P","E","r","6">>,
      <<"D","e","l","l"," ","I","n","c","."," ","r">>,
      <<"D","E","L","L"," ","x","9">>,
      <<"C","i","s","c","o"," ">> }

HclModels == { <<"r","6">>, <<" ","R","6","4"," ">>, <<"h","p","e","r","6">>, <<" ">> }

Str_ESXi_90 == <<"E","S","X","i"," ","9",".","0">>
Str_ESXi_80 == <<"E","S","X","i"," ","8",".","0">>
HclReleases == { <<Str_ESXi_90>>, <<Str_ESXi_90, Str_ESXi_80>>, <<Str_ESXi_90, Str_ESXi_90>> }

HclEntries == {[m |-> m, r |-> r] : m \in HclModels, r \in HclReleases}

InitCompat ==
    /\ cm_model \in ModelStrings
    /\ cm_hcl \in SeqsUpTo(HclEntries, MaxHclEntries)
    /\ cm_out = <<>>
    /\ CompatOnly

\* h["vcf9"] = check_vcf9_compat(h["model"], build_vcf9_lookup(hcl_data))
CheckCompat ==
    /\ cm_out = <<>>
    /\ cm_out' = <<check_vcf9_compat(cm_model, build_vcf9_lookup(cm_hcl))>>
    /\ UNCHANGED <<cm_model, cm_hcl>>
    /\ CompatFrame

NextCompat == CheckCompat
SpecCompat == InitCompat /\ [][NextCompat]_vars

CmDone    == cm_out # <<>>
CmVerdict == cm_out[1]
CmEmpty   == cm_model = None \/ cm_model = <<>>
CmNorm    == Lower(normalize_model(cm_model))
CmLookup  == build_vcf9_lookup(cm_hcl)
\* the records of the reference file whose model, stripped and lower-cased, is key
CmRecordsOf(key) == {i \in DOMAIN cm_hcl : Lower(Strip(cm_hcl[i].m)) = key}
CmLastRecordOf(key) ==
    cm_hcl[CHOOSE i \in CmRecordsOf(key) : \A j \in CmRecordsOf(key) : j <= i]
CmExact   == ~CmEmpty /\ CmRecordsOf(CmNorm) # {}

\* C6: every model string (empty and absent included) and every table give
\* one verdict whose status is compatible, incompatible or unknown, and the
\* status is unknown, with the fixed label, exactly for an empty or absent
\* model.
C6_TotalVerdict ==
    CmDone =>
        /\ CmVerdict.status \in {"compatible", "incompatible", "unknown"}
        /\ (CmVerdict.status = "unknown") <=> CmEmpty
        /\ CmEmpty => CmVerdict.label = UnknownLabel

\* witness: a verdict for the empty string against a non-empty table
C6_Witness ==
    CmDone /\ cm_model = <<>> /\ cm_hcl # <<>> /\ CmVerdict.status = "unknown"

RECURSIVE Dedup(_)
Dedup(xs) ==
    IF xs = <<>> THEN <<>>
    ELSE LET rest == Dedup(SubSeq(xs, 1, Len(xs) - 1)) IN
         IF \E i \in DOMAIN rest : rest[i] = xs[Len(xs)] THEN rest
         ELSE Append(rest, xs[Len(xs)])

\* C7 as stated, read for a non-empty model (the empty one is settled
\* before any key is looked up): on an exact match of the normalized model
\* with a table key the verdict is compatible and the label joins the
\* distinct versions of that key, sorted ascending, with " + " (no version
\* twice).
C7_DistinctSortedLabel ==
    (CmDone /\ CmExact) =>
        /\ CmVerdict.status = "compatible"
        /\ CmVerdict.label =
              ReadyLabel(Dedup(Sorted(VersionsOf(CmLastRecordOf(CmNorm).r))))

\* C7 amended: on an exact match of a non-empty model, normalized, with a
\* table key the verdict is compatible and the label joins, with " + ", the
\* versions of the last record of that key, sorted ascending, a version the
\* record lists twice appearing twice.
C7_SortedLabel ==
    (CmDone /\ CmExact) =>
        /\ CmVerdict.status = "compatible"
        /\ LET vs == VersionsOf(CmLastRecordOf(CmNorm).r)
               label == CmVerdict.label
           IN  \E perm \in [DOMAIN vs -> DOMAIN vs] :
                  /\ \A i, j \in DOMAIN vs : i # j => perm[i] # perm[j]
                  /\ \A i \in DOMAIN vs : i > 1 => ~StrLess(vs[perm[i]], vs[perm[i - 1]])
                  /\ label = ReadyLabel([i \in DOMAIN vs |-> vs[perm[i]]])

\* witness: an exact match after a vendor prefix was stripped, on a record
\* that lists its versions out of order
C7_Witness ==
    /\ CmDone /\ CmExact
    /\ VendorPrefixLen(cm_model) > 0
    /\ CmLastRecordOf(CmNorm).r = <<Str_ESXi_90, Str_ESXi_80>>
    /\ CmVerdict.status = "compatible"

CmSubstringKeys ==
    {k \in DOMAIN CmLookup :
        IsSubstr(CmNorm, CmLookup[k].key) \/ IsSubstr(CmLookup[k].key, CmNorm)}

\* C8: a non-empty model without an exact key match is compatible exactly
\* when some key contains the normalized model or is contained in it, the
\* label then coming from the first such key in table order; otherwise it
\* is incompatible with the fixed label.  An exact match takes precedence
\* over a substring match earlier in the table.
C8_SubstringFallback ==
    (CmDone /\ ~CmEmpty) =>
        /\ CmNorm \notin LookupKeys(CmLookup) =>
              /\ (CmVerdict.status = "compatible") <=> (CmSubstringKeys # {})
              /\ CmSubstringKeys # {} =>
                    LET first == CHOOSE k \in CmSubstringKeys :
                                    \A j \in CmSubstringKeys : k <= j
                    IN  CmVerdict.label =
                            ReadyLabel(Sorted(VersionsOf(CmLookup[first].releases)))
              /\ CmSubstringKeys = {} =>
                    /\ CmVerdict.status = "incompatible"
                    /\ CmVerdict.label = NotReadyLabel
        /\ CmNorm \in LookupKeys(CmLookup) =>
              /\ CmVerdict.status = "compatible"
              /\ CmVerdict.label =
                    ReadyLabel(Sorted(VersionsOf(LookupGet(CmLookup, CmNorm))))

\* witness: no exact match, the second key of the table is the first that
\* matches, and it matches because the key is contained in the model
C8_Witness ==
    /\ CmDone /\ ~CmEmpty
    /\ CmNorm \notin LookupKeys(CmLookup)
    /\ Len(CmLookup) = 2
    /\ CmSubstringKeys = {2}
    /\ ~IsSubstr(CmNorm, CmLookup[2].key)
    /\ CmVerdict.status = "compatible"

\* witness: an exact match behind an earlier key that matches as a substring
C8_WitnessPrecedence ==
    /\ CmDone /\ ~CmEmpty
    /\ Len(CmLookup) = 2
    /\ CmLookup[2].key = CmNorm
    /\ IsSubstr(CmLookup[1].key, CmNorm)
    /\ CmLookup[1].releases # CmLookup[2].releases
    /\ CmVerdict.label = vcf9_label(CmLookup[2].releases)
    /\ CmVerdict.label # vcf9_label(CmLookup[1].releases)

\* witness: nothing matches in either direction
C8_WitnessNoMatch ==
    CmDone /\ ~CmEmpty /\ cm_hcl # <<>> /\ CmVerdict.status = "incompatible"

(***************************************************************************)
(* rect and generate_excalidraw.  uid() is a random UUID: the k-th call of *)
(* a run returns <<salt, k>>, salt being drawn anew for every run.  An     *)
(* element keeps, besides the fields the layout decides, what it stands    *)
(* for (role) and the index of its site.                                   *)
(***************************************************************************)
MaxGxHosts == 5
MaxRuns    == 2
NumSalts   == 2

ZONE_W    == 780
COLS      == 3
HOST_W    == 230
HOST_H    == 120
CLUSTER_H == 28
HEADER_H  == 65
PAD       == 12
COL_GAP   == 10
ROW_GAP   == 8
ZONE_GAP  == 30
CANVAS_X  == 60
CANVAS_Y  == 60

PALETTES ==
    <<
      [zone_bg |-> "#E3F5F4", zone_stroke |-> "#2DC4B8", hdr_bg |-> "#2DC4B8", hdr_text |-> "#FFFFFF",
       cluster_bg |-> "#EAF8F7", cluster_stroke |-> "#2DC4B8",
       host_bg |-> "#FFFFFF", host_stroke |-> "#7DD4CE", host_text |-> "#0D4A45"],
      [zone_bg |-> "#E8F0FB", zone_stroke |-> "#1A5DAD", hdr_bg |-> "#1A5DAD", hdr_text |-> "#FFFFFF",
       cluster_bg |-> "#EDF3FD", cluster_stroke |-> "#1A5DAD",
       host_bg |-> "#FFFFFF", host_stroke |-> "#5B9BD5", host_text |-> "#0D3B78"],
      [zone_bg |-> "#E8F5EE", zone_stroke |-> "#1E8449", hdr_bg |-> "#1E8449", hdr_text |-> "#FFFFFF",
       cluster_bg |-> "#EDF7F1", cluster_stroke |-> "#1E8449",
       host_bg |-> "#FFFFFF", host_stroke |-> "#52BE80", host_text |-> "#145A32"],
      [zone_bg |-> "#EDE8F7", zone_stroke |-> "#5B3DAB", hdr_bg |-> "#5B3DAB", hdr_text |-> "#FFFFFF",
       cluster_bg |-> "#F3F0FB", cluster_stroke |-> "#5B3DAB",
       host_bg |-> "#FFFFFF", host_stroke |-> "#9B7DD4", host_text |-> "#3D2580"],
      [zone_bg |-> "#EAF0F0", zone_stroke |-> "#2E7D8C", hdr_bg |-> "#2E7D8C", hdr_text |-> "#FFFFFF",
       cluster_bg |-> "#EEF4F5", cluster_stroke |-> "#2E7D8C",
       host_bg |-> "#FFFFFF", host_stroke |-> "#6BB8C4", host_text |-> "#1A4D56"],
      [zone_bg |-> "#FAE8E8", zone_stroke |-> "#C0392B", hdr_bg |-> "#C0392B", hdr_text |-> "#FFFFFF",
       cluster_bg |-> "#FDF0F0", cluster_stroke |-> "#C0392B",
       host_bg |-> "#FFFFFF", host_stroke |-> "#E57373", host_text |-> "#7B241C"]
    >>

Uid(salt, k) == <<salt, k>>

\* a plausible slip: a hand-drawn jitter taken from the element's random id
rect_Jitter(id_, x, y, w, h, bg, stroke, text, text_color, txt_id, role, site) ==
    LET el == [id |-> id_, type |-> "rectangle",
               x |-> x + id_[1], y |-> y, width |-> w, height |-> h,
               strokeColor |-> stroke, backgroundColor |-> bg,
               seed |-> <<"hash", id_>>,
               boundElements |-> IF text # <<>> THEN <<txt_id>> ELSE <<>>,
               containerId |-> <<>>, text |-> <<>>, role |-> role, site |-> site]
        txt == [id |-> txt_id, type |-> "text",
                x |-> x + id_[1], y |-> y, width |-> w, height |-> h,
                strokeColor |-> text_color, backgroundColor |-> "transparent",
                seed |-> <<"hash", txt_id>>,
                boundElements |-> <<>>,
                containerId |-> id_, text |-> text, role |-> role, site |-> site]
    IN  IF text # <<>> THEN <<el, txt>> ELSE <<el>>

\* a plausible slip: the text element given the id of its rectangle
rect_SharedId(id_, x, y, w, h, bg, stroke, text, text_color, txt_id, role, site) ==
    LET el == [id |-> id_, type |-> "rectangle",
               x |-> x, y |-> y, width |-> w, height |-> h,
               strokeColor |-> stroke, backgroundColor |-> bg,
               seed |-> <<"hash", id_>>,
               boundElements |-> IF text # <<>> THEN <<id_>> ELSE <<>>,
               containerId |-> <<>>, text |-> <<>>, role |-> role, site |-> site]
        txt == [id |-> id_, type |-> "text",
                x |-> x, y |-> y, width |-> w, height |-> h,
                strokeColor |-> text_color, backgroundColor |-> "transparent",
                seed |-> <<"hash", id_>>,
                boundElements |-> <<>>,
                containerId |-> id_, text |-> text, role |-> role, site |-> site]
    IN  IF text # <<>> THEN <<el, txt>> ELSE <<el>>

\* rect(id_, x, y, w, h, bg, stroke, text, ..., text_color): the rectangle
\* and, for a non-empty text, the text element bound to it (txt_id is what
\* uid() returns there).  role and site record what the element stands for.
rect(id_, x, y, w, h, bg, stroke, text, text_color, txt_id, role, site) ==
    LET el == [id |-> id_, type |-> "rectangle",
               x |-> x, y |-> y, width |-> w, height |-> h,
               strokeColor |-> stroke, backgroundColor |-> bg,
               seed |-> <<"hash", id_>>,
               boundElements |-> IF text # <<>> THEN <<txt_id>> ELSE <<>>,
               containerId |-> <<>>, text |-> <<>>, role |-> role, site |-> site]
        txt == [id |-> txt_id, type |-> "text",
                x |-> x, y |-> y, width |-> w, height |-> h,
                strokeColor |-> text_color, backgroundColor |-> "transparent",
                seed |-> <<"hash", txt_id>>,
                boundElements |-> <<>>,
                containerId |-> id_, text |-> text, role |-> role, site |-> site]
    IN  IF text # <<>> THEN <<el, txt>> ELSE <<el>>

\* X_id = uid(); elements.extend(rect(X_id, ...)): acc is the elements so
\* far and the number of uid() calls made
Emit(acc, salt, x, y, w, h, bg, stroke, text, text_color, role, site) ==
    [elements |-> acc.elements \o
                    rect(Uid(salt, acc.n + 1), x, y, w, h, bg, stroke, text, text_color,
                         Uid(salt, acc.n + 2), role, site),
     n |-> acc.n + (IF text # <<>> THEN 2 ELSE 1)]

\* host_h = 140 if vcf9_enabled else HOST_H
HostHeight(vcf9_enabled) == IF vcf9_enabled THEN 140 ELSE HOST_H

\* rows = (len(chosts) + COLS - 1) // COLS
ClusterRows(chosts) == (Len(chosts) + COLS - 1) \div COLS

\* a plausible slip: the column offset left out
HostX_OneColumn(x_cursor, i) == x_cursor + PAD

\* hx = x_cursor + PAD + col_i * (HOST_W + COL_GAP), i counted from 0
HostX(x_cursor, i) == x_cursor + PAD + (i % COLS) * (HOST_W + COL_GAP)

\* a plausible slip: the row offset left out, so a fourth host lands on the first
HostY_NoWrap(cy, i, host_h) == cy

\* hy = cy + row_i * (host_h + ROW_GAP), i counted from 0
HostY(cy, i, host_h) == cy + (i \div COLS) * (host_h + ROW_GAP)

\* a plausible slip: the compatibility line appended whenever the host has one
HostLines_NoFlag(h, vcf9_enabled) ==
    <<h.hostname,
      IF h.model # <<>> THEN h.model ELSE <<"[dash]">>,
      IF h.svc # <<>> THEN <<"S","V","C",":"," ">> \o h.svc ELSE <<"S","V","C",":"," ">> \o <<"[dash]">>,
      IF h.esxi # <<>> THEN <<"E","S","X","i"," ">> \o h.esxi ELSE <<"E","S","X","i"," ">> \o <<"[dash]">>,
      <<"V","M","s",":">> \o h.vms \o <<" "," ","C","P","U",":">> \o h.cpu
        \o <<" "," ","M","e","m",":">> \o h.mem>>
    \o (IF "vcf9" \in DOMAIN h THEN <<h.vcf9.label>> ELSE <<>>)

\* lines = [...]; if vcf9_enabled and "vcf9" in h: lines.append(...)
HostLines(h, vcf9_enabled) ==
    <<h.hostname,
      IF h.model # <<>> THEN h.model ELSE <<"[dash]">>,
      IF h.svc # <<>> THEN <<"S","V","C",":"," ">> \o h.svc ELSE <<"S","V","C",":"," ">> \o <<"[dash]">>,
      IF h.esxi # <<>> THEN <<"E","S","X","i"," ">> \o h.esxi ELSE <<"E","S","X","i"," ">> \o <<"[dash]">>,
      <<"V","M","s",":">> \o h.vms \o <<" "," ","C","P","U",":">> \o h.cpu
        \o <<" "," ","M","e","m",":">> \o h.mem>>
    \o (IF vcf9_enabled /\ "vcf9" \in DOMAIN h THEN <<h.vcf9.label>> ELSE <<>>)

\* label = "\n".join(lines)
HostLabel(h, vcf9_enabled) == Join(<<"\n">>, HostLines(h, vcf9_enabled))

\* a plausible slip: the alert stroke for every host with an incompatible
\* verdict, whether or not annotation is enabled
HostStroke_NoFlag(p, h, vcf9_enabled) ==
    IF "vcf9" \in DOMAIN h /\ h.vcf9.status = "incompatible"
    THEN "#E57373" ELSE p.host_stroke

\* stroke = p["host_stroke"], "#E57373" for an incompatible host
HostStroke(p, h, vcf9_enabled) ==
    IF vcf9_enabled /\ "vcf9" \in DOMAIN h /\ h.vcf9.status = "incompatible"
    THEN "#E57373" ELSE p.host_stroke

\* hdr_text: name, host and VM counts, and the vCenter line when known
HeaderText(site) ==
    site.site_name \o <<" "," ","[dot]"," "," ">> \o NatToStr(site.total_hosts)
        \o <<" ","h","o","s","t","s"," "," ","[dot]"," "," ">>
        \o NatToStr(site.total_vms) \o <<" ","V","M","s">>
        \o (IF site.vcenter_version # <<>>
            THEN <<"\n","v","C","e","n","t","e","r"," ">> \o site.vcenter_version
            ELSE <<>>)

LegendText ==
    Join(<<"\n">>, <<<<"V","C","F"," ","9"," ","C","o","m","p","a","t","i","b","i","l","i","t","y">>,
                     <<"[check]">> \o <<" ","V","C","F"," ","x",".","x"," ","R","e","a","d","y">>,
                     <<"[cross]">> \o <<" ","N","o","t"," ","V","C","F","9"," ","R","e","a","d","y">>,
                     <<"[warn]">> \o <<" ","V","C","F","9"," ","?"," ">> \o <<"[dash]">> \o <<" ","m","o","d","e","l"," ","u","n","k","n","o","w","n">>>>)

\* for i, h in enumerate(chosts), from host number i (counted from 1)
RECURSIVE GxHostsLoop(_, _, _, _, _, _, _, _, _, _)
GxHostsLoop(acc, salt, chosts, i, x_cursor, cy, host_h, p, vcf9_enabled, site) ==
    IF i > Len(chosts) THEN acc
    ELSE GxHostsLoop(
            Emit(acc, salt, HostX(x_cursor, i - 1), HostY(cy, i - 1, host_h),
                 HOST_W, host_h, p.host_bg, HostStroke(p, chosts[i], vcf9_enabled),
                 HostLabel(chosts[i], vcf9_enabled), p.host_text, "host", site),
            salt, chosts, i + 1, x_cursor, cy, host_h, p, vcf9_enabled, site)

\* for cname, chosts in clusters.items(), cy being the running y
RECURSIVE GxClustersLoop(_, _, _, _, _, _, _, _, _)
GxClustersLoop(acc, salt, clusters, x_cursor, cy, host_h, p, vcf9_enabled, site) ==
    IF clusters = <<>> THEN acc
    ELSE LET c     == clusters[1]
             bar   == Emit(acc, salt, x_cursor + PAD, cy, ZONE_W - 2 * PAD, CLUSTER_H,
                           p.cluster_bg, p.cluster_stroke, c.name, p.zone_stroke,
                           "cluster", site)
             cy1   == cy + CLUSTER_H + PAD
             boxes == GxHostsLoop(bar, salt, c.hosts, 1, x_cursor, cy1, host_h,
                                  p, vcf9_enabled, site)
             cy2   == cy1 + ClusterRows(c.hosts) * (host_h + ROW_GAP) + PAD
         IN  GxClustersLoop(boxes, salt, Tail(clusters), x_cursor, cy2, host_h,
                            p, vcf9_enabled, site)

\* zone_inner_y after the loop over the clusters
RECURSIVE ZoneInnerY(_, _)
ZoneInnerY(clusters, host_h) ==
    IF clusters = <<>> THEN HEADER_H + PAD
    ELSE ZoneInnerY(SubSeq(clusters, 1, Len(clusters) - 1), host_h)
         + CLUSTER_H + PAD + ClusterRows(clusters[Len(clusters)].hosts) * (host_h + ROW_GAP)

\* for idx, site in enumerate(sites), from site number idx (counted from 1)
RECURSIVE GxSitesLoop(_, _, _, _, _, _, _)
GxSitesLoop(acc, salt, sites, idx, x_cursor, host_h, vcf9_enabled) ==
    IF idx > Len(sites) THEN [acc |-> acc, x_cursor |-> x_cursor]
    ELSE LET site   == sites[idx]
             p      == PALETTES[((idx - 1) % Len(PALETTES)) + 1]
             zone_h == ZoneInnerY(site.clusters, host_h) + PAD
             y0     == CANVAS_Y
             zone   == Emit(acc, salt, x_cursor, y0, ZONE_W, zone_h,
                            p.zone_bg, p.zone_stroke, <<>>, "#1C2E44", "zone", idx)
             hdr    == Emit(zone, salt, x_cursor, y0, ZONE_W, HEADER_H,
                            p.hdr_bg, p.hdr_bg, HeaderText(site), p.hdr_text, "header", idx)
             body   == GxClustersLoop(hdr, salt, site.clusters, x_cursor,
                                      y0 + HEADER_H + PAD, host_h, p, vcf9_enabled, idx)
         IN  GxSitesLoop(body, salt, sites, idx + 1, x_cursor + ZONE_W + ZONE_GAP,
                         host_h, vcf9_enabled)

\* generate_excalidraw(sites, vcf9_enabled): doc["elements"]
generate_excalidraw(sites, vcf9_enabled, salt) ==
    LET host_h == HostHeight(vcf9_enabled)
        done   == GxSitesLoop([elements |-> <<>>, n |-> 0], salt, sites, 1, CANVAS_X,
                              host_h, vcf9_enabled)
    IN  IF vcf9_enabled
        THEN Emit(done.acc, salt, done.x_cursor, CANVAS_Y, 220, 90,
                  "#FFF9E6", "#D4A017", LegendText, "#4A4A00", "legend", 0).elements
        ELSE done.acc.elements

(***************************************************************************)
(* Site lists handed to generate_excalidraw: the shapes of GroupSites with *)
(* names as text and hosts as the parsers build them.  Host number i       *)
(* takes the next of five kinds in turn: fields blank or filled, and a     *)
(* verdict attached (as /generate does before the layout) or not.          *)
(***************************************************************************)
\* h["vcf9"] = check_vcf9_compat(h["model"], vcf9_lookup)
Annotate(h, lookup) ==
    [f \in DOMAIN h \cup {"vcf9"} |->
        IF f = "vcf9" THEN check_vcf9_compat(h.model, lookup) ELSE h[f]]

GxLookup == build_vcf9_lookup(<<[m |-> <<"R","6","4">>, r |-> <<Str_ESXi_90>>]>>)

GxHost(i) ==
    LET plain(model, filled) ==
            [hostname |-> <<"h", DigitChars[i + 1]>>,
             cluster  |-> <<>>,
             model    |-> model,
             esxi     |-> IF filled THEN <<"8",".","0",".","2">> ELSE <<>>,
             vms      |-> IF filled THEN <<"1","2">> ELSE <<"0">>,
             cpu      |-> IF filled THEN <<"4","0","%">> ELSE <<"[dash]">>,
             mem      |-> IF filled THEN <<"7","%">> ELSE <<"[dash]">>,
             svc      |-> IF filled THEN <<"S","N","1">> ELSE <<>>,
             sockets          |-> 2,
             cores_per_socket |-> 8]
    IN  CASE i % 5 = 1 -> plain(<<>>, FALSE)
          [] i % 5 = 2 -> plain(<<"R","6","4">>, TRUE)
          [] i % 5 = 3 -> Annotate(plain(<<"x","9">>, TRUE), GxLookup)
          [] i % 5 = 4 -> Annotate(plain(<<>>, FALSE), GxLookup)
          [] OTHER     -> Annotate(plain(<<"D","e","l","l"," ","R","6","4","0">>, TRUE),
                                   GxLookup)

GxSites(sites) ==
    [s \in DOMAIN sites |->
        LET hosts == FlatHosts(<<sites[s]>>) IN
        [site_name |-> <<"S", DigitChars[s + 1]>>,
         clusters  |-> [c \in DOMAIN sites[s].clusters |->
                          [name  |-> <<"C", DigitChars[c + 1]>>,
                           hosts |-> [k \in DOMAIN sites[s].clusters[c].hosts |->
                                        GxHost(sites[s].clusters[c].hosts[k].hostname)]]],
         vcenter_version |-> IF s % 2 = 1 THEN <<"8",".","0",".","1">> ELSE <<>>,
         total_hosts |-> Len(hosts),
         total_vms   |-> TotalVms([k \in DOMAIN hosts |-> GxHost(hosts[k].hostname)])]]

\* a workbook without a non-blank hostname gives a site without clusters
EmptySite == [site_name |-> <<"S","0">>, clusters |-> <<>>, vcenter_version |-> <<>>,
              total_hosts |-> 0, total_vms |-> 0]

InitLayout ==
    /\ \E n \in 1..MaxGxHosts :
         \E cuts \in [1..(n - 1) -> CutKinds], lead \in BOOLEAN :
            gx_sites = (IF lead THEN <<EmptySite>> ELSE <<>>)
                       \o GxSites(GroupSites([i \in 1..n |-> [hostname |-> i]], cuts))
    /\ gx_vcf9 \in BOOLEAN
    /\ gx_docs = <<>>
    /\ LayoutOnly

\* one run of generate_excalidraw(sites, vcf9_enabled=...)
GenerateExcalidraw ==
    /\ Len(gx_docs) < MaxRuns
    /\ \E salt \in 1..NumSalts :
          gx_docs' = Append(gx_docs, generate_excalidraw(gx_sites, gx_vcf9, salt))
    /\ UNCHANGED <<gx_sites, gx_vcf9>>
    /\ LayoutFrame

NextLayout == GenerateExcalidraw
SpecLayout == InitLayout /\ [][NextLayout]_vars

HostRects(doc) == {k \in DOMAIN doc : doc[k].type = "rectangle" /\ doc[k].role = "host"}

Overlap(a, b) ==
    /\ a.x < b.x + b.width  /\ b.x < a.x + a.width
    /\ a.y < b.y + b.height /\ b.y < a.y + a.height

\* C9: in a generated document no two host rectangles of one site overlap,
\* in the same cluster or in different clusters, with or without the
\* compatibility flag.
C9_NoHostOverlap ==
    \A d \in DOMAIN gx_docs :
        \A k, l \in HostRects(gx_docs[d]) :
            (k # l /\ gx_docs[d][k].site = gx_docs[d][l].site)
                => ~Overlap(gx_docs[d][k], gx_docs[d][l])

\* witness: a site with a cluster that wraps to a second row and a second
\* cluster below it
C9_Witness ==
    /\ gx_docs # <<>>
    /\ \E s \in DOMAIN gx_sites :
          /\ Len(gx_sites[s].clusters) = 2
          /\ Len(gx_sites[s].clusters[1].hosts) = 4
    /\ Cardinality(HostRects(gx_docs[1])) = 5

Geometry(doc) ==
    [k \in DOMAIN doc |-> <<doc[k].type, doc[k].x, doc[k].y, doc[k].width, doc[k].height>>]

\* C10: two runs on the same site list and flag give element sequences
\* with the same type, x, y, width and height at every position; only ids
\* and seeds may differ.
C10_SameGeometry ==
    \A d, e \in DOMAIN gx_docs : Geometry(gx_docs[d]) = Geometry(gx_docs[e])

\* witness: two runs whose element ids differ
C10_Witness ==
    /\ Len(gx_docs) >= 2
    /\ Len(gx_docs[1]) > 4
    /\ gx_docs[1][1].id # gx_docs[2][1].id
    /\ gx_docs[1][1].seed # gx_docs[2][1].seed

\* the pairing of rectangles and texts in one document
PairedElements(doc) ==
    /\ \A k, l \in DOMAIN doc : k # l => doc[k].id # doc[l].id
    /\ \A k \in DOMAIN doc :
          doc[k].type = "text" =>
             /\ k > 1
             /\ doc[k - 1].type = "rectangle"
             /\ doc[k].containerId = doc[k - 1].id
             /\ doc[k - 1].boundElements = <<doc[k].id>>
    /\ \A k \in DOMAIN doc :
          doc[k].type = "rectangle" =>
             /\ Len(doc[k].boundElements) <= 1
             /\ (k = Len(doc) \/ doc[k + 1].type # "text") => doc[k].boundElements = <<>>

\* C16: in every generated document the element ids are pairwise distinct;
\* every text element names as its container the rectangle just before
\* it, and that rectangle lists exactly that text id as bound; a rectangle
\* with no text after it has no bound element; no rectangle has more than
\* one.
\* (each document is examined in the state in which it is produced)
C16_BoundTextPairs == gx_docs # <<>> => PairedElements(gx_docs[Len(gx_docs)])

\* witness: a document with a site zone (a rectangle without text) followed
\* by its header and the header's text
C16_Witness ==
    /\ gx_docs # <<>>
    /\ Len(gx_docs[1]) >= 5
    /\ gx_docs[1][1].role = "zone" /\ gx_docs[1][1].boundElements = <<>>
    /\ gx_docs[1][2].type = "rectangle" /\ gx_docs[1][3].type = "text"
    /\ gx_docs[1][3].containerId = gx_docs[1][2].id

\* text.split(sep) for a one-character separator
RECURSIVE SplitOn(_, _)
SplitOn(text, sep) ==
    LET first == SelectSeq([i \in DOMAIN text |-> IF text[i] = sep THEN i ELSE 0],
                           LAMBDA i : i # 0)
    IN  IF first = <<>> THEN <<text>>
        ELSE <<SubSeq(text, 1, first[1] - 1)>>
             \o SplitOn(SubSeq(text, first[1] + 1, Len(text)), sep)

HostTexts(doc) ==
    SelectSeq(doc, LAMBDA e : e.type = "text" /\ e.role = "host")

Dash == <<"[dash]">>

\* the lines of one host label, as the claim lists them
LabelAsClaimed(lines, h, vcf9_enabled) ==
    /\ Len(lines) >= 5
    /\ lines[1] = h.hostname
    /\ lines[2] = (IF h.model = <<>> THEN Dash ELSE h.model)
    /\ lines[3] = <<"S","V","C",":"," ">> \o (IF h.svc = <<>> THEN Dash ELSE h.svc)
    /\ lines[4] = <<"E","S","X","i"," ">> \o (IF h.esxi = <<>> THEN Dash ELSE h.esxi)
    /\ lines[5] = <<"V","M","s",":">> \o h.vms \o <<" "," ","C","P","U",":">> \o h.cpu
                      \o <<" "," ","M","e","m",":">> \o h.mem
    /\ IF vcf9_enabled /\ "vcf9" \in DOMAIN h
       THEN Len(lines) = 6 /\ lines[6] = h.vcf9.label
       ELSE Len(lines) = 5

LabelsAsClaimed(texts, hosts, vcf9_enabled) ==
    /\ Len(texts) = Len(hosts)
    /\ \A k \in DOMAIN hosts :
          LabelAsClaimed(SplitOn(texts[k].text, "\n"), hosts[k], vcf9_enabled)

\* C17: every host label is, line by line, the hostname; the model or a
\* dash; the serial tag or a dash; the version or a dash; one line with VM
\* count, CPU% and memory%; then one more line with the compatibility label
\* exactly when the flag is on and the host carries a verdict, and otherwise
\* nothing more.
\* (Each document is examined in the state in which it is produced.)
C17_HostLabelLines ==
    gx_docs # <<>> =>
        LabelsAsClaimed(HostTexts(gx_docs[Len(gx_docs)]), FlatHosts(gx_sites), gx_vcf9)

\* witness: with the flag on, one label of six lines and one of five (a
\* host without a verdict), the latter with blank model, tag and version
C17_Witness ==
    /\ gx_vcf9 /\ gx_docs # <<>>
    /\ \E k, l \in DOMAIN HostTexts(gx_docs[1]) :
          /\ Len(SplitOn(HostTexts(gx_docs[1])[k].text, "\n")) = 6
          /\ Len(SplitOn(HostTexts(gx_docs[1])[l].text, "\n")) = 5
          /\ SplitOn(HostTexts(gx_docs[1])[l].text, "\n")[2] = Dash

\* witness: with the flag off, a host that carries a verdict gets five lines
C17_WitnessFlagOff ==
    /\ ~gx_vcf9 /\ gx_docs # <<>>
    /\ \E k \in DOMAIN FlatHosts(gx_sites) : "vcf9" \in DOMAIN FlatHosts(gx_sites)[k]

\* the zone rectangle of site idx in a document
ZoneOf(doc, idx) ==
    doc[CHOOSE k \in DOMAIN doc : doc[k].role = "zone" /\ doc[k].site = idx]

InsideX(e, zone) == zone.x <= e.x /\ e.x + e.width <= zone.x + zone.width
InsideY(e, zone) == zone.y <= e.y /\ e.y + e.height <= zone.y + zone.height

SiteContent(doc) ==
    {k \in DOMAIN doc : doc[k].type = "rectangle"
                          /\ doc[k].role \in {"header", "cluster", "host"}}

\* C21: in a generated document the header band, every cluster bar and
\* every host box of a site lie inside the site's zone rectangle, left to
\* right and top to bottom, whatever the number of clusters and hosts.
\* (Each document is examined in the state in which it is produced.)
C21_ZoneEnclosesContent ==
    LET encloses(doc) ==
            \A k \in SiteContent(doc) :
                /\ InsideX(doc[k], ZoneOf(doc, doc[k].site))
                /\ InsideY(doc[k], ZoneOf(doc, doc[k].site))
    IN  gx_docs # <<>> => encloses(gx_docs[Len(gx_docs)])

\* what does hold: the content never leaves the zone sideways, and it stays
\* inside top to bottom in every site of at most two clusters; in a site of
\* three or more clusters the last host row ends below the zone
C21_EnclosedUpToTwoClusters ==
    LET holds(doc) ==
            /\ \A k \in SiteContent(doc) : InsideX(doc[k], ZoneOf(doc, doc[k].site))
            /\ \A s \in DOMAIN gx_sites :
                  LET own == {k \in SiteContent(doc) : doc[k].site = s} IN
                  (\A k \in own : InsideY(doc[k], ZoneOf(doc, s)))
                      <=> Len(gx_sites[s].clusters) <= 2
    IN  gx_docs # <<>> => holds(gx_docs[Len(gx_docs)])

\* a document drawn for a site of three clusters
C21_WitnessThreeClusters ==
    /\ gx_docs # <<>>
    /\ \E s \in DOMAIN gx_sites : Len(gx_sites[s].clusters) = 3

AlertStroke == "#E57373"

Incompatible(h) == "vcf9" \in DOMAIN h /\ h.vcf9.status = "incompatible"

\* the host boxes of a document, in the order of the hosts they stand for
HostBoxes(doc) == SelectSeq(doc, LAMBDA e : e.type = "rectangle" /\ e.role = "host")

\* C23: with annotation enabled, in every site, whatever its index, a host
\* box has the alert stroke colour exactly when the host's verdict is
\* incompatible.
\* (Each document is examined in the state in which it is produced.)
C23_AlertIffIncompatible ==
    LET marks(boxes, hosts) ==
            \A k \in DOMAIN hosts :
                (boxes[k].strokeColor = AlertStroke) <=> Incompatible(hosts[k])
    IN  (gx_vcf9 /\ gx_docs # <<>>) =>
            marks(HostBoxes(gx_docs[Len(gx_docs)]), FlatHosts(gx_sites))

\* what does hold: the equivalence in every site that is not drawn with the
\* sixth palette, whose own host stroke is the alert colour; there every
\* host box has it, whatever the verdict
C23_AlertOutsideSixthPalette ==
    LET marks(boxes, hosts) ==
            \A k \in DOMAIN hosts :
                IF PALETTES[((boxes[k].site - 1) % Len(PALETTES)) + 1].host_stroke
                       = AlertStroke
                THEN boxes[k].strokeColor = AlertStroke
                ELSE (boxes[k].strokeColor = AlertStroke) <=> Incompatible(hosts[k])
    IN  (gx_vcf9 /\ gx_docs # <<>>) =>
            marks(HostBoxes(gx_docs[Len(gx_docs)]), FlatHosts(gx_sites))

\* a compatible host drawn in a sixth site, and an incompatible one drawn
\* in an earlier site
C23_WitnessSixthSite ==
    /\ gx_vcf9 /\ gx_docs # <<>>
    /\ Len(gx_sites) = 6
    /\ \E h \in {gx_sites[6].clusters[1].hosts[1]} :
          "vcf9" \in DOMAIN h /\ h.vcf9.status = "compatible"
    /\ \E k \in DOMAIN FlatHosts(gx_sites) :
          /\ Incompatible(FlatHosts(gx_sites)[k])
          /\ HostBoxes(gx_docs[1])[k].strokeColor = AlertStroke
          /\ HostBoxes(gx_docs[1])[k].site < 6

(***************************************************************************)
(* find_col on its own: a header row of distinct names (pandas renames an  *)
(* exact duplicate) in any order and letter case, and an ordered list of   *)
(* candidate names.                                                        *)
(***************************************************************************)
MaxHeaders    == 3
MaxCandidates == 2

FcHeaderNames    == {Str_Host, <<"H","O","S","T">>, Str_Name, Str_Cluster}
FcCandidateNames == {Str_VM_Host, Str_Host, Str_Name}

InitFindCol ==
    /\ fc_columns \in {h \in SeqsUpTo(FcHeaderNames, MaxHeaders) :
                            \A i, j \in DOMAIN h : i # j => h[i] # h[j]}
    /\ fc_candidates \in SeqsUpTo(FcCandidateNames, MaxCandidates)
    /\ fc_out = <<>>
    /\ ColOnly

\* col = find_col(df, candidates)
FindCol ==
    /\ fc_out = <<>>
    /\ fc_out' = <<find_col(fc_columns, fc_candidates)>>
    /\ UNCHANGED <<fc_columns, fc_candidates>>
    /\ ColFrame

NextFindCol == FindCol
SpecFindCol == InitFindCol /\ [][NextFindCol]_vars

\* the headers equal, ignoring case, to candidate number k
FcHits(k) == {i \in DOMAIN fc_columns : Lower(fc_columns[i]) = Lower(fc_candidates[k])}
FcMatching == {k \in DOMAIN fc_candidates : FcHits(k) # {}}
FcReorderings ==
    {[i \in DOMAIN fc_columns |-> fc_columns[p[i]]] :
        p \in {q \in [DOMAIN fc_columns -> DOMAIN fc_columns] :
                  \A i, j \in DOMAIN fc_columns : i # j => q[i] # q[j]}}

C15_WitnessNone ==
    /\ fc_out = <<None>>
    /\ fc_columns # <<>> /\ fc_candidates # <<>>

(***************************************************************************)
(* Grouping, read off the workbook row by row.                             *)
(***************************************************************************)

\* for every row, the hostname the parser reads and the cluster name the
\* row falls under: "Default" for a blank cell or a missing column
RowInfo(rows, parser, col_host, col_cluster) ==
    LET name(cell) == IF cell = None \/ cell = <<>> THEN Str_Default ELSE cell IN
    [i \in DOMAIN rows |->
        IF parser = "parse_rvtools"
        THEN [hostname |-> IF col_host # None THEN safe(rows[i][col_host]) ELSE <<>>,
              cluster  |-> name(IF col_cluster # None THEN safe(rows[i][col_cluster])
                                ELSE None)]
        ELSE [hostname |-> safe(RowGet(rows[i], Str_Host_Name)),
              cluster  |-> name(IF Str_Cluster \in DOMAIN rows[i]
                                THEN safe(rows[i][Str_Cluster]) ELSE None)]]

\* the first kept row naming the cluster; 0 when none does
FirstRowOf(info, kept, name) ==
    LET first(rs) == IF rs = {} THEN 0 ELSE CHOOSE i \in rs : \A j \in rs : i <= j
    IN  first({i \in kept : info[i].cluster = name})

\* the hostnames of the kept rows 1..n of a cluster, in row order
RECURSIVE HostnamesOf(_, _, _, _)
HostnamesOf(info, kept, name, n) ==
    IF n = 0 THEN <<>>
    ELSE HostnamesOf(info, kept, name, n - 1) \o
         (IF n \in kept /\ info[n].cluster = name THEN <<info[n].hostname>> ELSE <<>>)

\* kept: the numbers of the rows with a non-blank hostname
GroupedInRowOrder(info, kept, cs) ==
    /\ \A i \in kept : \E k \in DOMAIN cs : cs[k].name = info[i].cluster
    /\ \A k \in DOMAIN cs :
          /\ cs[k].name # <<>>
          /\ FirstRowOf(info, kept, cs[k].name) # 0
          /\ [i \in DOMAIN cs[k].hosts |-> cs[k].hosts[i].hostname]
                = HostnamesOf(info, kept, cs[k].name, Len(info))
    /\ \A k, l \in DOMAIN cs :
          k < l => FirstRowOf(info, kept, cs[k].name) < FirstRowOf(info, kept, cs[l].name)

C19_WitnessRowOrder ==
    /\ Parsed /\ ParseRes.status = "ok"
    /\ Len(ParseRes.clusters) = 1
    /\ Len(ParseRes.clusters[1].hosts) = 2
    /\ ParseRes.clusters[1].hosts[1].hostname = <<"h","2">>
    /\ ParseRes.clusters[1].hosts[2].hostname = <<"h","1">>

\* witness: a blank cluster cell after a named one, filed under "Default"
C19_WitnessDefault ==
    /\ Parsed /\ ParseRes.status = "ok"
    /\ Len(ParseRes.clusters) = 2
    /\ ParseRes.clusters[2].name = Str_Default
    /\ Str_Cluster \in DOMAIN workbook.rows[2]
    /\ workbook.rows[2][Str_Cluster] = NaN

\* witness: no cluster column at all, every host under "Default"
C19_WitnessNoColumn ==
    /\ Parsed /\ ParseRes.status = "ok"
    /\ ParseRes.total_hosts = 2
    /\ Len(ParseRes.clusters) = 1
    /\ ParseRes.clusters[1].name = Str_Default
    /\ Len(workbook.columns) = 1

(***************************************************************************)
(* Workbooks for the socket and core counts: one host sheet of either      *)
(* schema, a hostname column, and a "Sockets" and a "Cores Per Socket"     *)
(* column that may each be missing.  A cell is the text str() gives for    *)
(* it: a number cell holding infinity reads "inf".                         *)
(***************************************************************************)
MaxCountRows == 2

SocketCells == {NaN, <<"x">>, <<"2">>, <<" ","1","6",".","9"," ">>, <<"-","1">>,
                <<"i","n","f">>, <<"n","a","n">>}
CoreCells   == {NaN, <<"8">>, <<"-","4">>, <<"-","I","n","f","i","n","i","t","y">>}

CountRowsOf(host_col, with_sockets, with_cores) ==
    LET names == {host_col} \cup (IF with_sockets THEN {Str_Sockets} ELSE {})
                            \cup (IF with_cores THEN {Str_Cores_Per_Socket} ELSE {})
    IN  {r \in [names -> {<<"h","1">>} \cup SocketCells \cup CoreCells] :
            /\ r[host_col] = <<"h","1">>
            /\ with_sockets => r[Str_Sockets] \in SocketCells
            /\ with_cores => r[Str_Cores_Per_Socket] \in CoreCells}

CountBooks ==
    \E sheet \in {Str_vHost_sheet, Str_ESX_Hosts_sheet}, ws, wc \in BOOLEAN :
        LET host_col == IF sheet = Str_vHost_sheet THEN Str_Name ELSE Str_Host_Name IN
        \E rs \in SeqsUpTo(CountRowsOf(host_col, ws, wc), MaxCountRows) :
            workbook = [sheet_names |-> <<sheet>>,
                        columns |-> <<host_col>>
                                    \o (IF ws THEN <<Str_Sockets>> ELSE <<>>)
                                    \o (IF wc THEN <<Str_Cores_Per_Socket>> ELSE <<>>),
                        rows |-> rs]

InitCounts ==
    /\ CountBooks
    /\ site_name \in SiteLabels
    /\ parse_out = <<>>
    /\ ParseOnly

SpecCounts == InitCounts /\ [][NextParse]_vars

\* whether the cell of a count column holds a finite number
FiniteCell(row, col) ==
    col \in DOMAIN row /\ PyFloat(safe(row[col])).kind = "finite"

\* the hosts of a parsed Site, in cluster and host order
ParsedHosts == FlatHosts(<<ParseRes>>)

\* C18: whatever the cells of the socket and core columns hold, or with
\* the columns missing, parsing goes on to a Site, every row gets a host
\* with integer counts, and a count is 0 when its cell is not a finite
\* number.
C18_CoercionNeverRaises ==
    Parsed =>
        /\ ParseRes.status = "ok"
        /\ Len(ParsedHosts) = Len(workbook.rows)
        /\ \A i \in DOMAIN ParsedHosts :
              /\ ParsedHosts[i].sockets \in Int
              /\ ParsedHosts[i].cores_per_socket \in Int
              /\ ~FiniteCell(workbook.rows[i], Str_Sockets) => ParsedHosts[i].sockets = 0
              /\ ~FiniteCell(workbook.rows[i], Str_Cores_Per_Socket)
                    => ParsedHosts[i].cores_per_socket = 0

\* what does hold: the parser stops with OverflowError exactly when a count
\* cell reads as an infinity, and otherwise the counts are as C18 says
InfiniteCell(row, col) ==
    col \in DOMAIN row /\ PyFloat(safe(row[col])).kind = "inf"
C18_RaisesOnInfinity ==
    Parsed =>
        LET infinite == \E i \in DOMAIN workbook.rows :
                            \/ InfiniteCell(workbook.rows[i], Str_Sockets)
                            \/ InfiniteCell(workbook.rows[i], Str_Cores_Per_Socket)
        IN  /\ infinite <=> ParseRes.status = "OverflowError"
            /\ ~infinite =>
                  /\ ParseRes.status = "ok"
                  /\ Len(ParsedHosts) = Len(workbook.rows)
                  /\ \A i \in DOMAIN ParsedHosts :
                        /\ ~FiniteCell(workbook.rows[i], Str_Sockets)
                              => ParsedHosts[i].sockets = 0
                        /\ ~FiniteCell(workbook.rows[i], Str_Cores_Per_Socket)
                              => ParsedHosts[i].cores_per_socket = 0

\* a row with " 16.9 " sockets and 8 cores, read as 16 and 8
C18_WitnessTruncated ==
    /\ Parsed /\ ParseRes.status = "ok"
    /\ \E i \in DOMAIN ParsedHosts :
          ParsedHosts[i].sockets = 16 /\ ParsedHosts[i].cores_per_socket = 8

(***************************************************************************)
(* The /license-csv route on one uploaded workbook: the file is parsed and *)
(* its Site appended to sites, then the report is computed for the         *)
(* deployment type of the form.  A parse that raises ends the request      *)
(* before any report is made.                                              *)
(***************************************************************************)
InitLicenseCsv ==
    /\ CountBooks
    /\ site_name \in SiteLabels
    /\ parse_out = <<>>
    /\ lic_sites = <<>>
    /\ lic_type \in {"VCF", "VVF"}
    /\ lic_report = <<>>
    /\ IdleHcl /\ IdleCompat /\ IdleLayout /\ IdleCol /\ IdleReq /\ IdleCsv

LicenseCsvFrame ==
    UNCHANGED <<hclVars, compatVars, layoutVars, colVars, reqVars, csvVars>>

\* site = parse_file(file_bytes, site_name); sites.append(site)
LicenseCsvParse ==
    /\ parse_out = <<>>
    /\ LET site == parse_file(workbook, site_name)
       IN  /\ parse_out' = <<site>>
           /\ lic_sites' = IF site.status = "ok" THEN <<site>> ELSE <<>>
    /\ UNCHANGED <<workbook, site_name, lic_type, lic_report>>
    /\ LicenseCsvFrame

\* report = calculate_licensing(sites, deployment_type)
LicenseCsvReport ==
    /\ lic_sites # <<>>
    /\ lic_report = <<>>
    /\ lic_report' = <<calculate_licensing(lic_sites, lic_type)>>
    /\ UNCHANGED <<parseVars, lic_sites, lic_type>>
    /\ LicenseCsvFrame

NextLicenseCsv == LicenseCsvParse \/ LicenseCsvReport
SpecLicenseCsv == InitLicenseCsv /\ [][NextLicenseCsv]_vars

\* C22: for every host record a parser can produce, negative counts
\* included, every licence line has foundation_cores >= 0 and entitlement
\* >= 0, foundation_cores is 0 exactly when the line is flagged missing,
\* and the report totals are never negative.
C22_NonNegativeLicences ==
    LicDone =>
        /\ \A i \in DOMAIN LicReport.rows :
              /\ LicReport.rows[i].foundation_cores >= 0
              /\ LicReport.rows[i].entitled_tib >= 0
              /\ LicReport.rows[i].foundation_cores = 0 <=> LicReport.rows[i].missing
        /\ LicReport.total_cores >= 0
        /\ LicReport.total_tib >= 0

\* what does hold: a line is below zero exactly when its host has a
\* negative socket count and a non-zero core count, foundation_cores is 0
\* exactly on the missing lines, and the totals are the sums of the lines
C22_NegativeWithNegativeSockets ==
    LicDone =>
        /\ \A i \in DOMAIN LicReport.rows :
              LET line == LicReport.rows[i] IN
              /\ line.foundation_cores < 0
                    <=> (line.sockets < 0 /\ line.cores_per_socket # 0)
              /\ line.entitled_tib < 0 <=> line.foundation_cores < 0
              /\ line.foundation_cores = 0 <=> line.missing
        /\ (\A i \in DOMAIN LicReport.rows : LicReport.rows[i].sockets >= 0)
              => LicReport.total_cores >= 0 /\ LicReport.total_tib >= 0

\* witness: a host read with -1 sockets and 8 cores gets a line of -16 cores
C22_WitnessNegativeSockets ==
    /\ LicDone
    /\ \E i \in DOMAIN LicReport.rows :
          /\ LicReport.rows[i].sockets = -1
          /\ LicReport.rows[i].cores_per_socket = 8
          /\ LicReport.rows[i].foundation_cores = -16
          /\ ~LicReport.rows[i].missing

\* witness: negative cores alone are raised to the 16-core floor
C22_WitnessNegativeCores ==
    /\ LicDone
    /\ \E i \in DOMAIN LicReport.rows :
          /\ LicReport.rows[i].sockets = 2
          /\ LicReport.rows[i].cores_per_socket = -4
          /\ LicReport.rows[i].foundation_cores = 32

(***************************************************************************)
(* The /generate route.  One request at a time runs the handler from its   *)
(* first line to its return: the files are parsed in upload order, the     *)
(* hosts are annotated when the vcf9 field asks for it, the diagram is     *)
(* built and serialised, the licence report is computed when asked for,    *)
(* and the file is sent.  hcl_cache is _hcl_cache, <<>> for None and      *)
(* <<data>> once loaded; hcl_file says what open() and json.load() find    *)
(* on disk; app_config is app.config['_last_license_report'], <<>> while   *)
(* the key is not set.                                                     *)
(***************************************************************************)
MaxFiles == 2

Str_ClusterA == <<"C","l","u","s","t","e","r","A">>
Str_ClusterB == <<"C","l","u","s","t","e","r","B">>

RvRow(host, cluster, model) ==
    (Str_Host :> host) @@ (Str_Cluster :> cluster) @@ (Str_Model :> model)

\* an RVTools export: four hosts, three in ClusterA and one in ClusterB
ScenarioBook ==
    [sheet_names |-> <<Str_Summary_sheet, Str_vHost_sheet>>,
     columns     |-> <<Str_Host, Str_Cluster, Str_Model>>,
     rows        |-> <<RvRow(<<"h","1">>, Str_ClusterA, <<"D","e","l","l"," ","R","6","4","0">>),
                       RvRow(<<"h","2">>, Str_ClusterA, <<"q","7">>),
                       RvRow(<<"h","3">>, Str_ClusterA, NaN),
                       RvRow(<<"h","4">>, Str_ClusterB, <<"x","9">>)>>]

\* a workbook with neither host sheet
NoSchemaBook ==
    [sheet_names |-> <<Str_Summary_sheet>>, columns |-> <<>>, rows |-> <<>>]

\* an RVTools export whose socket count reads inf
InfBook ==
    [sheet_names |-> <<Str_vHost_sheet>>,
     columns     |-> <<Str_Host, Str_Sockets>>,
     rows        |-> <<(Str_Host :> <<"h","9">>) @@ (Str_Sockets :> <<"i","n","f">>)>>]

Uploads ==
    { [ext |-> ".xlsx", xls |-> ScenarioBook],
      [ext |-> ".xlsx", xls |-> NoSchemaBook],
      [ext |-> ".xlsx", xls |-> InfBook],
      [ext |-> ".txt",  xls |-> NoSchemaBook] }

\* names[i]: the site label typed for file i
SiteNameOf(i) == <<"S", DigitChars[i + 1]>>

\* what vcf9_hcl.json holds: the table; records without the 'm' key; a
\* record whose 'r' is null
HclTable == <<[m |-> <<"R","6","4">>, r |-> <<Str_ESXi_90>>]>>
HclNoModelKey == <<[model |-> <<"R","6","4">>, r |-> <<Str_ESXi_90>>]>>
HclNullReleases ==
    <<[m |-> <<"R","6","4">>, r |-> <<Str_ESXi_90>>], [m |-> <<"x","9">>, r |-> None]>>

HclFiles == {"ok", "missing", "corrupt", "no_m_key", "null_releases"}

JsonOf(file) ==
    CASE file = "ok"            -> HclTable
      [] file = "no_m_key"      -> HclNoModelKey
      [] file = "null_releases" -> HclNullReleases

\* load_hcl() run from entry to exit: exc is the exception it raises ("" for
\* none), cache is _hcl_cache afterwards, which is also what it returns
LoadHcl(cache, file) ==
    IF cache # <<>> THEN [exc |-> "", cache |-> cache]
    ELSE IF file = "missing" THEN [exc |-> "FileNotFoundError", cache |-> cache]
    ELSE IF file = "corrupt" THEN [exc |-> "JSONDecodeError", cache |-> cache]
    ELSE [exc |-> "", cache |-> <<JsonOf(file)>>]

\* build_vcf9_lookup(hcl_data), entry['m'] raising KeyError
BuildLookup(hcl_data) ==
    IF \E i \in DOMAIN hcl_data : "m" \notin DOMAIN hcl_data[i]
    THEN [exc |-> "KeyError", lookup |-> <<>>]
    ELSE [exc |-> "", lookup |-> build_vcf9_lookup(hcl_data)]

\* the releases check_vcf9_compat hands to _vcf9_label, if it gets there
RECURSIVE FirstMatchReleases(_, _)
FirstMatchReleases(norm, lookup) ==
    IF lookup = <<>> THEN <<>>
    ELSE IF IsSubstr(norm, lookup[1].key) \/ IsSubstr(lookup[1].key, norm)
         THEN <<lookup[1].releases>>
    ELSE FirstMatchReleases(norm, Tail(lookup))

MatchedReleases(model, lookup) ==
    LET of(norm) == IF norm \in LookupKeys(lookup) THEN <<LookupGet(lookup, norm)>>
                    ELSE FirstMatchReleases(norm, lookup)
    IN  IF model = <<>> THEN <<>> ELSE of(Lower(normalize_model(model)))

\* _vcf9_label(None): iterating None raises TypeError
CompatRaises(model, lookup) == MatchedReleases(model, lookup) = <<None>>

\* the hosts before the first one whose check raises
RECURSIVE AnnotatedCount(_, _)
AnnotatedCount(hosts, lookup) ==
    IF hosts = <<>> \/ CompatRaises(hosts[1].model, lookup) THEN 0
    ELSE 1 + AnnotatedCount(Tail(hosts), lookup)

\* hosts ahead of host k of cluster c of site s, in loop order
HostsAhead(sites, s, c, k) ==
    Len(FlatHosts(SubSeq(sites, 1, s - 1)))
    + SumSeq([d \in 1..(c - 1) |-> Len(sites[s].clusters[d].hosts)]) + (k - 1)

\* for site in sites: for chosts in ...: for h in chosts: h["vcf9"] = ...
\* the first n hosts in loop order annotated in place
AnnotateFirst(sites, lookup, n) ==
    [s \in DOMAIN sites |->
        [sites[s] EXCEPT !.clusters =
            [c \in DOMAIN sites[s].clusters |->
                [name  |-> sites[s].clusters[c].name,
                 hosts |-> [k \in DOMAIN sites[s].clusters[c].hosts |->
                              IF HostsAhead(sites, s, c, k) < n
                              THEN Annotate(sites[s].clusters[c].hosts[k], lookup)
                              ELSE sites[s].clusters[c].hosts[k]]]]]]

\* the try block of the vcf9 step: exc is what `except Exception` caught
Vcf9Block(sites, cache, file) ==
    LET annotate(lookup) ==
            LET n == AnnotatedCount(FlatHosts(sites), lookup) IN
            [exc     |-> IF n < Len(FlatHosts(sites)) THEN "TypeError" ELSE "",
             sites   |-> AnnotateFirst(sites, lookup, n)]
        build(b, cache1) ==
            IF b.exc # "" THEN [exc |-> b.exc, sites |-> sites, cache |-> cache1]
            ELSE [c \in {"cache"} |-> cache1] @@ annotate(b.lookup)
        load(l) ==
            IF l.exc # "" THEN [exc |-> l.exc, sites |-> sites, cache |-> l.cache]
            ELSE build(BuildLookup(l.cache[1]), l.cache)
    IN  load(LoadHcl(cache, file))

\* a plausible slip: no exception of parse_file turned into a 400 answer
ParseErrors_None == {}

\* except (ValueError, KeyError, pd.errors.ParserError)
ParseErrors == {"ValueError", "KeyError", "ParserError"}

\* the answers of the route
Answer(code, kind, at, body) == [code |-> code, kind |-> kind, at |-> at, body |-> body]

InitReq ==
    /\ rq_files \in SeqsUpTo(Uploads, MaxFiles)
    /\ rq_vcf9 \in BOOLEAN
    /\ rq_license \in BOOLEAN
    /\ hcl_file \in HclFiles
    /\ hcl_cache = <<>>
    /\ app_config = <<>>
    /\ rq_later = FALSE
    /\ rq_pc = "begin"
    /\ rq_i = 0 /\ rq_sites = <<>> /\ rq_enabled = FALSE /\ rq_caught = ""
    /\ rq_json = <<>> /\ rq_response = <<>> /\ rq_log = <<>>
    /\ ReqOnly

ReqInputs == <<rq_files, rq_vcf9, rq_license, rq_later, hcl_file>>

\* if not uploaded: return "No files uploaded", 400
ReqBegin ==
    /\ rq_pc = "begin"
    /\ IF rq_files = <<>>
       THEN /\ rq_response' = <<Answer(400, "No files uploaded", 0, <<>>)>>
            /\ rq_pc' = "done"
            /\ UNCHANGED rq_i
       ELSE /\ rq_pc' = "parse"
            /\ rq_i' = 1
            /\ UNCHANGED rq_response
    /\ UNCHANGED <<ReqInputs, rq_sites, rq_enabled, rq_caught, rq_json, rq_log,
                   app_config, hcl_cache>>
    /\ ReqFrame

\* one round of `for i, f in enumerate(uploaded)`; every round appends a
\* site or returns, so `if not sites` after the loop never holds
ReqParseFile ==
    /\ rq_pc = "parse"
    /\ LET f == rq_files[rq_i]
           return(answer, log) ==
               /\ rq_response' = <<answer>>
               /\ rq_pc' = "done"
               /\ rq_log' = log
               /\ UNCHANGED <<rq_i, rq_sites>>
           parsed(data, log) ==
               IF data.status = "ok"
               THEN /\ rq_sites' = Append(rq_sites, data)
                    /\ rq_log' = log
                    /\ rq_i' = rq_i + 1
                    /\ rq_pc' = IF rq_i < Len(rq_files) THEN "parse" ELSE "vcf9"
                    /\ UNCHANGED rq_response
               ELSE IF data.status \in ParseErrors
               THEN return(Answer(400, "Error parsing", rq_i, data.message), log)
               ELSE return(Answer(500, data.status, rq_i, <<>>), log)
       IN  IF f.ext # ".xlsx"
           THEN return(Answer(400, "Invalid file type", rq_i, <<>>), rq_log)
           ELSE parsed(parse_file(f.xls, SiteNameOf(rq_i)), Append(rq_log, <<"parse", rq_i>>))
    /\ UNCHANGED <<ReqInputs, rq_enabled, rq_caught, rq_json, app_config, hcl_cache>>
    /\ ReqFrame

\* the VCF 9 step: vcf9_enabled = False, then the try block if asked for
ReqVcf9 ==
    /\ rq_pc = "vcf9"
    /\ IF rq_vcf9
       THEN LET done(b) ==
                    /\ hcl_cache' = b.cache
                    /\ rq_sites' = b.sites
                    /\ rq_enabled' = (b.exc = "")
                    /\ rq_caught' = b.exc
            IN  /\ done(Vcf9Block(rq_sites, hcl_cache, hcl_file))
                /\ rq_log' = Append(rq_log, <<"annotate">>)
       ELSE /\ rq_enabled' = FALSE
            /\ UNCHANGED <<hcl_cache, rq_sites, rq_caught, rq_log>>
    /\ rq_pc' = "layout"
    /\ UNCHANGED <<ReqInputs, rq_i, rq_json, rq_response, app_config>>
    /\ ReqFrame

\* excalidraw_json = generate_excalidraw(sites, vcf9_enabled=vcf9_enabled);
\* ids of a later request are fresh
ReqLayout ==
    /\ rq_pc = "layout"
    /\ rq_json' = generate_excalidraw(rq_sites, rq_enabled, IF rq_later THEN 2 ELSE 1)
    /\ rq_log' = rq_log \o <<<<"layout">>, <<"serialize">>>>
    /\ rq_pc' = "license"
    /\ UNCHANGED <<ReqInputs, rq_i, rq_sites, rq_enabled, rq_caught, rq_response,
                   app_config, hcl_cache>>
    /\ ReqFrame

\* the licence step: app.config['_last_license_report'] = report
ReqLicense ==
    /\ rq_pc = "license"
    /\ IF rq_license
       THEN /\ app_config' = <<calculate_licensing(rq_sites, "VCF")>>
            /\ rq_log' = Append(rq_log, <<"license">>)
       ELSE UNCHANGED <<app_config, rq_log>>
    /\ rq_pc' = "send"
    /\ UNCHANGED <<ReqInputs, rq_i, rq_sites, rq_enabled, rq_caught, rq_json, rq_response,
                   hcl_cache>>
    /\ ReqFrame

\* return send_file(buf, ...)
ReqSend ==
    /\ rq_pc = "send"
    /\ rq_response' = <<Answer(200, "diagram", 0, rq_json)>>
    /\ rq_log' = Append(rq_log, <<"send">>)
    /\ rq_pc' = "done"
    /\ UNCHANGED <<ReqInputs, rq_i, rq_sites, rq_enabled, rq_caught, rq_json,
                   app_config, hcl_cache>>
    /\ ReqFrame

\* a later request arrives at the same process; the file on disk may have
\* been replaced meanwhile
ReqAgain ==
    /\ rq_pc = "done"
    /\ ~rq_later
    /\ rq_later' = TRUE
    /\ rq_files' \in SeqsUpTo(Uploads, MaxFiles)
    /\ rq_vcf9' \in BOOLEAN
    /\ rq_license' \in BOOLEAN
    /\ hcl_file' \in HclFiles
    /\ rq_pc' = "begin"
    /\ rq_i' = 0 /\ rq_sites' = <<>> /\ rq_enabled' = FALSE /\ rq_caught' = ""
    /\ rq_json' = <<>> /\ rq_response' = <<>> /\ rq_log' = <<>>
    /\ UNCHANGED <<app_config, hcl_cache>>
    /\ ReqFrame

NextReq ==
    \/ ReqBegin \/ ReqParseFile \/ ReqVcf9 \/ ReqLayout \/ ReqLicense \/ ReqSend
    \/ ReqAgain
SpecReq == InitReq /\ [][NextReq]_vars

ScenarioUpload == [ext |-> ".xlsx", xls |-> ScenarioBook]
ScenarioDone   == rq_pc = "done" /\ rq_files = <<ScenarioUpload>>

Rects(doc, role) == SelectSeq(doc, LAMBDA e : e.type = "rectangle" /\ e.role = role)
Texts(doc, role) == SelectSeq(doc, LAMBDA e : e.type = "text" /\ e.role = role)

\* one zone, the bars of ClusterA and ClusterB, four host boxes
ScenarioCounts(doc) ==
    /\ Len(Rects(doc, "zone")) = 1
    /\ Len(Rects(doc, "cluster")) = 2
    /\ [k \in 1..2 |-> Texts(doc, "cluster")[k].text] = <<Str_ClusterA, Str_ClusterB>>
    /\ Len(Rects(doc, "host")) = 4

\* ClusterA's three boxes side by side on one row, ClusterB's box below
\* them in the first column
ScenarioOneRow(zone, hosts) ==
    /\ \A k \in 1..3 : /\ hosts[k].y = hosts[1].y
                       /\ hosts[k].x = zone.x + PAD + (k - 1) * (HOST_W + COL_GAP)
    /\ hosts[4].x = hosts[1].x
    /\ hosts[4].y >= hosts[1].y + hosts[1].height

\* ClusterA's boxes on two rows, the third box alone on the second
ScenarioTwoRows(hosts) ==
    /\ hosts[1].y = hosts[2].y
    /\ hosts[3].y > hosts[1].y
    /\ hosts[3].x = hosts[1].x

\* C11: the upload of one RVTools workbook with three hosts in "ClusterA"
\* and one in "ClusterB" is answered with a diagram of exactly one site
\* zone, two cluster bars and four host boxes, in which ClusterA's three
\* hosts fill one row of three columns and ClusterB's host stands below.
C11_ScenarioOneRow ==
    ScenarioDone =>
        /\ rq_response[1].code = 200
        /\ ScenarioCounts(rq_response[1].body)
        /\ ScenarioOneRow(Rects(rq_response[1].body, "zone")[1],
                          Rects(rq_response[1].body, "host"))

\* C11 as stated: the same counts, with ClusterA wrapping to a second row
\* that holds one host.
C11_ScenarioAsStated ==
    ScenarioDone =>
        /\ rq_response[1].code = 200
        /\ ScenarioCounts(rq_response[1].body)
        /\ ScenarioTwoRows(Rects(rq_response[1].body, "host"))

\* witness: the scenario's request answered, its site parsed by the
\* RVTools parser into two clusters of three and one hosts
C11_Witness ==
    /\ ScenarioDone
    /\ rq_sites[1].parser = "parse_rvtools"
    /\ [c \in 1..2 |-> Len(rq_sites[1].clusters[c].hosts)] = <<3, 1>>
    /\ rq_response[1].kind = "diagram"

PaletteOf(idx) == PALETTES[((idx - 1) % Len(PALETTES)) + 1]

\* a diagram drawn without annotation
Unannotated(doc) ==
    /\ \A k \in DOMAIN doc :
          (doc[k].type = "rectangle" /\ doc[k].role = "host") =>
             /\ doc[k].height = HOST_H
             /\ doc[k].strokeColor = PaletteOf(doc[k].site).host_stroke
    /\ \A k \in DOMAIN doc :
          (doc[k].type = "text" /\ doc[k].role = "host") =>
             Len(SplitOn(doc[k].text, "\n")) = 5
    /\ \A k \in DOMAIN doc : doc[k].role # "legend"

\* C12: when the vcf9 field asks for annotation and loading the table,
\* building the lookup or annotating a host raises, the request goes on
\* with annotation off: the answer is the diagram, its host boxes have the
\* plain height and their palette's stroke, every host label has five
\* lines, and there is no legend box.
C12_DegradesToPlainDiagram ==
    (rq_vcf9 /\ rq_caught # "") =>
        /\ ~rq_enabled
        /\ rq_pc \in {"layout", "license", "send", "done"}
        /\ rq_pc \in {"license", "send", "done"} => Unannotated(rq_json)
        /\ rq_pc = "done" => rq_response = <<Answer(200, "diagram", 0, rq_json)>>

\* witness: the table could not be loaded and the request is answered
C12_Witness ==
    /\ rq_pc = "done" /\ rq_vcf9
    /\ rq_caught \in {"FileNotFoundError", "JSONDecodeError"}
    /\ Len(Rects(rq_json, "host")) = 4

\* witness: the lookup could not be built from a table that was loaded
C12_WitnessBuildFails ==
    /\ rq_pc = "done" /\ rq_vcf9 /\ rq_caught = "KeyError" /\ hcl_cache # <<>>
    /\ Len(Rects(rq_json, "host")) = 4

\* witness: annotation stopped half way, after an incompatible verdict
C12_WitnessHalfAnnotated ==
    /\ rq_pc = "done" /\ rq_vcf9 /\ rq_caught = "TypeError"
    /\ \E k, l \in DOMAIN FlatHosts(rq_sites) :
          /\ "vcf9" \in DOMAIN FlatHosts(rq_sites)[k]
          /\ FlatHosts(rq_sites)[k].vcf9.status = "incompatible"
          /\ "vcf9" \notin DOMAIN FlatHosts(rq_sites)[l]

\* what parse_file does with file i of the request
ParseOf(i) == parse_file(rq_files[i].xls, SiteNameOf(i))
ParsedFiles == {rq_log[k][2] : k \in {j \in DOMAIN rq_log : rq_log[j][1] = "parse"}}
SchemaFailures == {i \in ParsedFiles : ParseOf(i).status = "ValueError"}

\* the stages in the order the handler runs them
StagesOf(n, vcf9, license) ==
    [i \in 1..n |-> <<"parse", i>>]
    \o (IF vcf9 THEN <<<<"annotate">>>> ELSE <<>>)
    \o <<<<"layout">>, <<"serialize">>>>
    \o (IF license THEN <<<<"license">>>> ELSE <<>>)
    \o <<<<"send">>>>

IsPrefix(a, b) == Len(a) <= Len(b) /\ a = SubSeq(b, 1, Len(a))

\* C13: the stages of a request run in the order parse (file 1, 2, ...),
\* annotate, layout, serialise, send; when parse_file fails on a file with
\* a schema error the answer is the error of that file, which is the first
\* such file, no later file is parsed and no diagram is built or returned;
\* a diagram is returned only after every file parsed and every stage ran.
C13_SequentialPipeline ==
    /\ IsPrefix(rq_log, StagesOf(Len(rq_files), rq_vcf9, rq_license))
    /\ \A i \in SchemaFailures :
          /\ rq_pc = "done"
          /\ rq_response = <<Answer(400, "Error parsing", i, ParseOf(i).message)>>
          /\ ParsedFiles = 1..i
          /\ \A j \in 1..(i - 1) : ParseOf(j).status = "ok"
          /\ rq_json = <<>>
    /\ rq_pc = "done" =>
          /\ rq_response # <<>>
          /\ rq_response[1].kind = "diagram" <=> rq_response[1].code = 200
          /\ rq_response[1].code = 200 =>
                /\ rq_log = StagesOf(Len(rq_files), rq_vcf9, rq_license)
                /\ \A i \in DOMAIN rq_files :
                      rq_files[i].ext = ".xlsx" /\ ParseOf(i).status = "ok"
                /\ Len(rq_sites) = Len(rq_files)
                /\ rq_response[1].body = rq_json /\ rq_json # <<>>

\* witness: the second file fails with a schema error after the first parsed
C13_Witness ==
    /\ rq_pc = "done" /\ Len(rq_files) = 2
    /\ SchemaFailures = {2}
    /\ Len(rq_sites) = 1

\* witness: two files parsed, annotated, drawn and sent
C13_WitnessDiagram ==
    /\ rq_pc = "done" /\ Len(rq_files) = 2 /\ rq_vcf9 /\ rq_enabled
    /\ rq_response[1].code = 200
    /\ Len(Rects(rq_json, "zone")) = 2

\* witness: a schema-failing file first, so the second file is never parsed
C13_WitnessFirstFails ==
    /\ rq_pc = "done" /\ Len(rq_files) = 2
    /\ SchemaFailures = {1} /\ ParsedFiles = {1}
    /\ rq_files[2] = ScenarioUpload

\* C14: requests change no process-wide state but the reference-table
\* cache: the application's configuration store stays as it was at start.
C14_OnlyCacheMutable == app_config = <<>>

\* the handler run from entry to exit on a request, given the cache
RECURSIVE ParseAll(_, _)
ParseAll(files, i) ==
    IF i > Len(files) THEN [answer |-> <<>>, sites |-> <<>>]
    ELSE IF files[i].ext # ".xlsx"
         THEN [answer |-> <<Answer(400, "Invalid file type", i, <<>>)>>, sites |-> <<>>]
    ELSE LET rest(data) ==
                 IF data.status = "ok"
                 THEN LET r == ParseAll(files, i + 1) IN
                      [answer |-> r.answer, sites |-> <<data>> \o r.sites]
                 ELSE IF data.status \in ParseErrors
                 THEN [answer |-> <<Answer(400, "Error parsing", i, data.message)>>,
                       sites |-> <<>>]
                 ELSE [answer |-> <<Answer(500, data.status, i, <<>>)>>, sites |-> <<>>]
         IN  rest(parse_file(files[i].xls, SiteNameOf(i)))

Handle(files, vcf9, cache, file, salt) ==
    LET draw(sites, enabled) == <<Answer(200, "diagram", 0,
                                         generate_excalidraw(sites, enabled, salt))>>
        annotated(b) == draw(b.sites, b.exc = "")
        go(p) == IF p.answer # <<>> THEN p.answer
                 ELSE IF vcf9 THEN annotated(Vcf9Block(p.sites, cache, file))
                 ELSE draw(p.sites, FALSE)
    IN  IF files = <<>> THEN <<Answer(400, "No files uploaded", 0, <<>>)>>
        ELSE go(ParseAll(files, 1))

\* the answer of every request, first or later, is what the handler gives
\* on the request's files and fields, the file on disk and the cache: what
\* earlier requests left in the configuration store plays no part
C14_AnswerFromRequestAndCache ==
    rq_pc = "done" =>
        rq_response = Handle(rq_files, rq_vcf9, hcl_cache, hcl_file,
                             IF rq_later THEN 2 ELSE 1)

\* a later request answered while the store holds an earlier request's report
C14_WitnessLaterRequest ==
    /\ rq_pc = "done" /\ rq_later /\ ~rq_license /\ app_config # <<>>
    /\ rq_response[1].code = 200

(***************************************************************************)
(* The CSV formatters.  A report is built from a site list the way the     *)
(* report routes build it (build_vcf9_report on annotated sites,           *)
(* calculate_licensing) and handed to its formatter.  Entitled TiB is      *)
(* held in quarters of a TiB, which f"{x:.2f}" prints exactly.             *)
(***************************************************************************)
MaxCsvHosts == 2

\* vcf9 = h.get("vcf9", {"status": "unknown", "label": "N/A"})
Vcf9Of(h) ==
    IF "vcf9" \in DOMAIN h THEN h.vcf9
    ELSE [status |-> "unknown", label |-> <<"N","/","A">>]

\* build_vcf9_report(sites)["rows"]
RECURSIVE Vcf9Rows(_)
Vcf9Rows(sites) ==
    IF sites = <<>> THEN <<>>
    ELSE LET site == sites[1]
             RECURSIVE OfClusters(_)
             OfClusters(cs) ==
                 IF cs = <<>> THEN <<>>
                 ELSE [k \in DOMAIN cs[1].hosts |->
                          [site     |-> site.site_name,
                           cluster  |-> cs[1].name,
                           hostname |-> cs[1].hosts[k].hostname,
                           model    |-> cs[1].hosts[k].model,
                           esxi     |-> cs[1].hosts[k].esxi,
                           status   |-> Vcf9Of(cs[1].hosts[k]).status,
                           label    |-> Vcf9Of(cs[1].hosts[k]).label]]
                      \o OfClusters(Tail(cs))
         IN  OfClusters(site.clusters) \o Vcf9Rows(Tail(sites))

\* f'"{v}"'
Quoted(v) == <<"\"">> \o v \o <<"\"">>

\* ",".join(f'"{v}"' for v in vals)
QuotedLine(vals) == Join(<<",">>, [k \in DOMAIN vals |-> Quoted(vals[k])])

\* f"{x:.2f}" for x = q quarters
FormatTib2(q) ==
    NatToStr(q \div 4) \o <<".">> \o
    (CASE q % 4 = 0 -> <<"0","0">> [] q % 4 = 1 -> <<"2","5">>
       [] q % 4 = 2 -> <<"5","0">> [] OTHER -> <<"7","5">>)

Vcf9CsvHeader == <<"S","i","t","e",",","C","l","u","s","t","e","r",",","H","o","s","t","n","a","m","e",",","M","o","d","e","l",",","E","S","X","i"," ","V","e","r","s","i","o","n",",","V","C","F","9"," ","S","t","a","t","u","s">>
LicCsvHeader ==
    <<"S","i","t","e",",","C","l","u","s","t","e","r",",","H","o","s","t","n","a","m","e",",","S","o","c","k","e","t","s",",","C","o","r","e","s"," ","p",
      "e","r"," ","S","o","c","k","e","t",",","F","o","u","n","d","a","t","i","o","n"," ","C","o","r","e","s",",","E","n","t","i","t","l","e","d"," ","T","i","B">>

\* the values of one data line, in column order
Vcf9Vals(r) == <<r.site, r.cluster, r.hostname, r.model, r.esxi, r.label>>
LicVals(r) ==
    <<r.site, r.cluster, r.hostname, IntToStr(r.sockets), IntToStr(r.cores_per_socket),
      IF r.missing THEN <<>> ELSE IntToStr(r.foundation_cores),
      IF r.missing THEN <<>> ELSE FormatTib2(r.entitled_tib)>>
LicTotalVals(report) ==
    <<<<"T","o","t","a","l">>, <<>>, <<>>, <<>>, <<>>,
      IntToStr(report.total_cores), FormatTib2(report.total_tib)>>

\* vcf9_report_csv(report), for report["rows"]
vcf9_report_csv(rows) ==
    Join(<<"\n">>, <<Vcf9CsvHeader>> \o [k \in DOMAIN rows |-> QuotedLine(Vcf9Vals(rows[k]))])

\* license_report_csv(report)
license_report_csv(report) ==
    Join(<<"\n">>, <<LicCsvHeader>>
                   \o [k \in DOMAIN report.rows |-> QuotedLine(LicVals(report.rows[k]))]
                   \o <<QuotedLine(LicTotalVals(report))>>)

\* field values: plain, with a comma, with a double quote, with both
CsvValues == { <<"a">>, <<"a",",","b">>, <<"a","\"">>, <<"a","\"",",","\"","a">> }

CsvHost(i, hostname) ==
    LET h == [hostname |-> hostname,
              model    |-> IF i % 2 = 1 THEN <<"R","6","4">> ELSE <<>>,
              esxi     |-> IF i % 2 = 1 THEN <<"8",".","0",".","2">> ELSE <<>>,
              sockets  |-> IF i % 2 = 1 THEN 2 ELSE 0,
              cores_per_socket |-> 20]
    IN  IF i % 2 = 1 THEN Annotate(h, GxLookup) ELSE h

InitCsv ==
    /\ \E name \in CsvValues, cname \in CsvValues, n \in 1..MaxCsvHosts :
         \E hn \in [1..n -> CsvValues] :
            csv_sites = <<[site_name |-> name,
                           clusters  |-> <<[name  |-> cname,
                                            hosts |-> [i \in 1..n |-> CsvHost(i, hn[i])]]>>]>>
    /\ csv_kind \in {"vcf9", "license"}
    /\ csv_out = <<>>
    /\ CsvOnly

\* content = vcf9_report_csv(report) / csv_content = license_report_csv(report)
FormatCsv ==
    /\ csv_out = <<>>
    /\ csv_out' = <<IF csv_kind = "vcf9"
                    THEN vcf9_report_csv(Vcf9Rows(csv_sites))
                    ELSE license_report_csv(calculate_licensing(csv_sites, "VVF"))>>
    /\ UNCHANGED <<csv_sites, csv_kind>>
    /\ CsvFrame

NextCsv == FormatCsv
SpecCsv == InitCsv /\ [][NextCsv]_vars

\* a CSV reader on one line: a field that starts with a double quote runs
\* to the closing quote, a doubled quote inside standing for one; text after
\* a closing quote is taken as it is; other fields run to the next comma
RECURSIVE CsvRead(_, _, _, _, _)
CsvRead(line, i, state, cur, fields) ==
    IF i > Len(line) THEN Append(fields, cur)
    ELSE LET c == line[i] IN
         CASE state = "start" ->
                 IF c = "\"" THEN CsvRead(line, i + 1, "quoted", cur, fields)
                 ELSE IF c = "," THEN CsvRead(line, i + 1, "start", <<>>, Append(fields, cur))
                 ELSE CsvRead(line, i + 1, "bare", Append(cur, c), fields)
           [] state = "bare" ->
                 IF c = "," THEN CsvRead(line, i + 1, "start", <<>>, Append(fields, cur))
                 ELSE CsvRead(line, i + 1, "bare", Append(cur, c), fields)
           [] state = "quoted" ->
                 IF c = "\"" THEN CsvRead(line, i + 1, "closing", cur, fields)
                 ELSE CsvRead(line, i + 1, "quoted", Append(cur, c), fields)
           [] OTHER ->
                 IF c = "\"" THEN CsvRead(line, i + 1, "quoted", Append(cur, c), fields)
                 ELSE IF c = "," THEN CsvRead(line, i + 1, "start", <<>>, Append(fields, cur))
                 ELSE CsvRead(line, i + 1, "bare", Append(cur, c), fields)

CsvSplit(line) == CsvRead(line, 1, "start", <<>>, <<>>)

\* the values each data line was written from, in line order
CsvWritten ==
    IF csv_kind = "vcf9"
    THEN [k \in DOMAIN Vcf9Rows(csv_sites) |-> Vcf9Vals(Vcf9Rows(csv_sites)[k])]
    ELSE LET written(report) ==
                 [k \in DOMAIN report.rows |-> LicVals(report.rows[k])]
                 \o <<LicTotalVals(report)>>
         IN  written(calculate_licensing(csv_sites, "VVF"))

HasQuote(v) == \E i \in DOMAIN v : v[i] = "\""

RoundTrips(lines, written) ==
    /\ Len(lines) = Len(written) + 1
    /\ \A k \in DOMAIN written : CsvSplit(lines[k + 1]) = written[k]

\* C20 (as stated, for the data lines): every data line read back as CSV
\* gives the values it was written from, whatever the values hold besides
\* newlines.
C20_DataLinesRoundTrip ==
    csv_out # <<>> => RoundTrips(SplitOn(csv_out[1], "\n"), CsvWritten)

\* what does hold: the data lines of a report whose values hold no double
\* quote read back unchanged, commas included, and every field of a data
\* line is written between double quotes
C20_RoundTripWithoutQuotes ==
    LET ok(lines, written) ==
            /\ (\A k \in DOMAIN written : \A f \in DOMAIN written[k] :
                    ~HasQuote(written[k][f])) => RoundTrips(lines, written)
            /\ \A k \in DOMAIN written : lines[k + 1] = QuotedLine(written[k])
    IN  csv_out # <<>> => ok(SplitOn(csv_out[1], "\n"), CsvWritten)

\* and the header line is written without quotes
C20_HeaderBare ==
    csv_out # <<>> => ~HasQuote(SplitOn(csv_out[1], "\n")[1])

\* a report with a comma in a value and no double quote anywhere, formatted
C20_WitnessComma ==
    /\ csv_out # <<>>
    /\ \A k \in DOMAIN CsvWritten : \A f \in DOMAIN CsvWritten[k] : ~HasQuote(CsvWritten[k][f])
    /\ \E k \in DOMAIN CsvWritten : CsvWritten[k][1] = <<"a",",","b">>

====
